---- MODULE Spec2Model ----
(***************************************************************************)
(* Migration pipeline of do-app-platform-skills:                           *)
(*   skills/migration/scripts/detect_platform.py      PlatformDetector     *)
(*   skills/migration/scripts/analyze_architecture.py ArchitectureAnalyzer *)
(*   skills/migration/scripts/generate_app_spec.py    AppSpecGenerator     *)
(*                                                                         *)
(* A repository root is a value: its kind (missing, regular file,          *)
(* directory), the relative paths of its files, its directories, and the   *)
(* parsed content of each manifest.  Paths, image names, port mappings and *)
(* environment-file texts are strings, and the substring, prefix and split *)
(* operations of the code are computed on them.                            *)
(***************************************************************************)
EXTENDS Integers, Sequences, FiniteSets, TLC

VARIABLES
    root,        \* the repository root on disk (never modified by the pipeline)
    hashSeed,    \* iteration order of Python sets of str in this process
    detectors,   \* PlatformDetector instances
    analyzers,   \* ArchitectureAnalyzer instances
    generators,  \* AppSpecGenerator instances
    checklist    \* what the last generate_checklist() call returned or raised

vars == <<root, hashSeed, detectors, analyzers, generators, checklist>>

(***************************************************************************)
(* Bounds of the model.                                                    *)
(***************************************************************************)
MaxFiles == 2      \* files in a root
MaxCalls == 2      \* calls of one operation on one instance

(***************************************************************************)
(* Strings.                                                                *)
(***************************************************************************)
Range(s) == {s[i] : i \in 1..Len(s)}

\* Python: sub in s
Contains(s, sub) ==
    \E i \in 1..(Len(s) - Len(sub) + 1) : SubSeq(s, i, i + Len(sub) - 1) = sub

\* Python: s.startswith(pre)
StartsWith(s, pre) == Len(pre) <= Len(s) /\ SubSeq(s, 1, Len(pre)) = pre

\* Python: s.endswith(suf)
EndsWith(s, suf) ==
    Len(suf) <= Len(s) /\ SubSeq(s, Len(s) - Len(suf) + 1, Len(s)) = suf

\* positions of the one-character string c in s
Positions(s, c) == {i \in 1..Len(s) : SubSeq(s, i, i) = c}

Max(S) == CHOOSE x \in S : \A y \in S : y <= x
Min(S) == CHOOSE x \in S : \A y \in S : x <= y

\* Python: s.split(c), c a single character
RECURSIVE Split(_, _)
Split(s, c) ==
    IF Positions(s, c) = {} THEN <<s>>
    ELSE LET i == Min(Positions(s, c))
         IN  <<SubSeq(s, 1, i - 1)>> \o Split(SubSeq(s, i + 1, Len(s)), c)

\* os.path.dirname of a relative path, "." for a file of the root itself
\* (what os.path.relpath(root, repo_path) gives for the directory walked)
RelRoot(path) ==
    IF Positions(path, "/") = {} THEN "."
    ELSE SubSeq(path, 1, Max(Positions(path, "/")) - 1)

\* the directories on the way to a file: every proper prefix ending before a "/"
AncestorDirs(path) == {SubSeq(path, 1, i - 1) : i \in Positions(path, "/")}

\* the last component of a directory path
BaseName(path) ==
    IF Positions(path, "/") = {} THEN path
    ELSE SubSeq(path, Max(Positions(path, "/")) + 1, Len(path))

(***************************************************************************)
(* The paths a root of the model may hold, in one fixed sequence.  A       *)
(* Python set of str iterates in an order fixed by the process's hash      *)
(* seed: hashSeed selects this sequence or its reverse.                    *)
(***************************************************************************)
PathUniverse ==
    << "Procfile", "app.json", "heroku.yml", "render.yaml", "railway.json",
       "fly.toml", "docker-compose.yml", "docker-compose.yaml", "compose.yml",
       "deploy/task-definition.json", ".aws/task-definition.json",
       "rebuild/task-definition.json", "build/task-definition.json",
       "task-definition.json", "apprunner.yaml", "Dockerrun.aws.json",
       "Dockerfile", "requirements.txt", "package.json", ".env.example",
       ".env.sample", "frontend/index.js", "backend/main.py",
       "next.config.js", "next.config.mjs", "gatsby-config.js", "README.md",
       "node_modules/pkg/package.json", ".cache/Procfile" >>

Reverse(s) == [i \in 1..Len(s) |-> s[Len(s) + 1 - i]]

\* for f in <set>: the elements of S in this process's iteration order
IterationOrder(S, seed) ==
    LET all == IF seed = 0 THEN PathUniverse ELSE Reverse(PathUniverse)
    IN  SelectSeq(all, LAMBDA p : p \in S)

(***************************************************************************)
(* Manifest contents, as the parsers (yaml.safe_load, json.loads,          *)
(* read_text) deliver them.  A YAML/JSON value that may be missing or null *)
(* carries its kind in k and its text in v.                                *)
(***************************************************************************)
Absent == [k |-> "absent", v |-> ""]
Null == [k |-> "null", v |-> ""]
Str(s) == [k |-> "str", v |-> s]

\* one entry of the compose file's services mapping
Service(name, body, image, build, ports) ==
    [name |-> name, body |-> body, image |-> image, build |-> build, ports |-> ports]

NoCompose == [doc |-> "map", services |-> "absent", entries |-> <<>>]
NoProcfile == <<>>
NoRender == [doc |-> "map", services |-> <<>>]
NoFly == [app |-> "", internal_port |-> 0]
NoDockerfile == [expose |-> "none", port |-> 0]
NoAppJson == [doc |-> "map", addons |-> <<>>]

EnvPaths == {".env.example", ".env.sample"}
NoEnvText == [p \in EnvPaths |-> ""]

\* an empty directory
EmptyRoot ==
    [kind |-> "dir", files |-> {}, dirs |-> {},
     procfile |-> NoProcfile, compose |-> NoCompose, render |-> NoRender,
     fly |-> NoFly, dockerfile |-> NoDockerfile, appjson |-> NoAppJson,
     envText |-> NoEnvText]

\* every directory of the root: the ancestors of its files and its empty directories
AllDirs(r) == r.dirs \cup UNION {AncestorDirs(p) : p \in r.files}

(***************************************************************************)
(* PlatformDetector                                                        *)
(***************************************************************************)
Indicator(platform, files, patterns, dirs, priority, description) ==
    [platform |-> platform, files |-> files, patterns |-> patterns,
     dirs |-> dirs, priority |-> priority, description |-> description]

GenericDockerPriority == 10

\* the dict literal, in declaration order (dicts iterate in insertion order)
PLATFORM_INDICATORS ==
    << Indicator("heroku", <<"Procfile", "app.json", "heroku.yml">>, <<>>, <<>>, 1, "Heroku PaaS"),
       Indicator("render", <<"render.yaml", "render.yml">>, <<>>, <<>>, 2, "Render PaaS"),
       Indicator("railway", <<"railway.json", "railway.toml">>, <<>>, <<>>, 2, "Railway PaaS"),
       Indicator("fly", <<"fly.toml">>, <<>>, <<>>, 2, "Fly.io"),
       Indicator("docker_compose",
                 <<"docker-compose.yml", "docker-compose.yaml", "compose.yml", "compose.yaml">>,
                 <<>>, <<>>, 3, "Docker Compose"),
       Indicator("aws_ecs", <<>>,
                 <<"**/task-definition.json", "**/ecs-task-definition.json",
                   ".aws/task-definition.json">>, <<>>, 4, "AWS ECS"),
       Indicator("aws_apprunner", <<"apprunner.yaml", "apprunner.yml">>, <<>>, <<>>, 4,
                 "AWS App Runner"),
       Indicator("aws_beanstalk", <<"Dockerrun.aws.json">>, <<>>, <<".elasticbeanstalk">>, 4,
                 "AWS Elastic Beanstalk"),
       Indicator("generic_docker", <<"Dockerfile">>, <<>>, <<>>, GenericDockerPriority,
                 "Generic Docker") >>

DetectorSkip == {".git", "node_modules", "venv", "__pycache__", ".next", "dist", "build"}

\* _scan_files: os.walk visits every directory; the files of a directory whose
\* relative path CONTAINS one of the skip words are left out.  os.walk of a path
\* that is not a directory yields nothing.
PlatformDetector_scan_files(r) ==
    IF r.kind # "dir" THEN {}
    ELSE {p \in r.files : ~\E skip \in DetectorSkip : Contains(RelRoot(p), skip)}

\* _scan_dirs: every directory, nothing pruned
PlatformDetector_scan_dirs(r) == IF r.kind # "dir" THEN {} ELSE AllDirs(r)

\* fnmatch.fnmatch for the patterns of the table: "*" matches any run of
\* characters, "/" included, so "**/x" matches exactly the paths ending in "/x"
FnMatch(path, pattern) ==
    IF StartsWith(pattern, "**/")
    THEN EndsWith(path, SubSeq(pattern, 3, Len(pattern)))
    ELSE path = pattern

RECURSIVE Flatten(_)
Flatten(ss) == IF ss = <<>> THEN <<>> ELSE Head(ss) \o Flatten(Tail(ss))

\* _check_patterns: for pattern in patterns: for filepath in self.files
PlatformDetector_check_patterns(files, patterns, seed) ==
    Flatten([i \in 1..Len(patterns) |->
        SelectSeq(IterationOrder(files, seed), LAMBDA p : FnMatch(p, patterns[i]))])

\* the body of detect()'s loop for one rule
FoundFiles(ind, files, seed) ==
    SelectSeq(ind.files, LAMBDA f : f \in files)
        \o PlatformDetector_check_patterns(files, ind.patterns, seed)

FoundDirs(ind, dirs) == SelectSeq(ind.dirs, LAMBDA d : d \in dirs)

Hit(ind, files, dirs, seed) ==
    [platform |-> ind.platform, description |-> ind.description,
     priority |-> ind.priority,
     found_files |-> FoundFiles(ind, files, seed),
     found_dirs |-> FoundDirs(ind, dirs)]

\* detected_platforms before the sort
DetectedPlatforms(files, dirs, seed) ==
    LET hits == [i \in 1..Len(PLATFORM_INDICATORS) |->
                    Hit(PLATFORM_INDICATORS[i], files, dirs, seed)]
    IN  SelectSeq(hits, LAMBDA h : h.found_files # <<>> \/ h.found_dirs # <<>>)

\* InsertByPriority with ties resolved the other way (an unstable sort)
InsertByPriority_TiesReversed(sorted, x) ==
    LET before == SelectSeq(sorted, LAMBDA y : y.priority < x.priority)
        after == SelectSeq(sorted, LAMBDA y : y.priority >= x.priority)
    IN  before \o <<x>> \o after

\* list.sort(key=priority) is stable: x goes after every element whose key is
\* not greater than its own
InsertByPriority(sorted, x) ==
    LET before == SelectSeq(sorted, LAMBDA y : y.priority <= x.priority)
        after == SelectSeq(sorted, LAMBDA y : y.priority > x.priority)
    IN  before \o <<x>> \o after

RECURSIVE SortByPriority(_)
SortByPriority(s) ==
    IF s = <<>> THEN <<>>
    ELSE InsertByPriority(SortByPriority(SubSeq(s, 1, Len(s) - 1)), s[Len(s)])

ComposeNamesDetector ==
    {"docker-compose.yml", "docker-compose.yaml", "compose.yml", "compose.yaml"}

NoDetection ==
    [primary_platform |-> "", primary_description |-> "", config_files |-> <<>>,
     all_detected |-> <<>>, has_dockerfile |-> FALSE, has_docker_compose |-> FALSE]

\* detect()
PlatformDetector_detect(files, dirs, seed) ==
    LET detected_platforms == SortByPriority(DetectedPlatforms(files, dirs, seed))
        none == detected_platforms = <<>>
    IN  [primary_platform |-> IF none THEN "unknown" ELSE detected_platforms[1].platform,
         primary_description |->
             IF none THEN "Unknown platform" ELSE detected_platforms[1].description,
         config_files |-> IF none THEN <<>> ELSE detected_platforms[1].found_files,
         all_detected |-> detected_platforms,
         has_dockerfile |-> "Dockerfile" \in files,
         has_docker_compose |-> files \cap ComposeNamesDetector # {}]

\* __init__: raises ValueError when the path does not exist; nothing else is checked
PlatformDetector_init_raises(r) == r.kind = "missing"

NoDetector ==
    [state |-> "none", files |-> {}, dirs |-> {}, calls |-> 0, result |-> NoDetection]

PlatformDetector_init(r) ==
    IF PlatformDetector_init_raises(r)
    THEN [NoDetector EXCEPT !.state = "ValueError"]
    ELSE [NoDetector EXCEPT !.state = "ready",
                            !.files = PlatformDetector_scan_files(r),
                            !.dirs = PlatformDetector_scan_dirs(r)]

(***************************************************************************)
(* More of Python's str.                                                   *)
(***************************************************************************)
UpperAlpha == "ABCDEFGHIJKLMNOPQRSTUVWXYZ"
LowerAlpha == "abcdefghijklmnopqrstuvwxyz"
Digits == "0123456789"

UpperChars == {SubSeq(UpperAlpha, i, i) : i \in 1..Len(UpperAlpha)}

LowerChar(c) ==
    IF c \notin UpperChars THEN c
    ELSE LET i == Min(Positions(UpperAlpha, c)) IN SubSeq(LowerAlpha, i, i)

RECURSIVE LowerFrom(_, _)
LowerFrom(s, i) ==
    IF i > Len(s) THEN "" ELSE LowerChar(SubSeq(s, i, i)) \o LowerFrom(s, i + 1)

\* s.lower()
Lower(s) ==
    IF \A i \in 1..Len(s) : SubSeq(s, i, i) \notin UpperChars THEN s ELSE LowerFrom(s, 1)

\* s.strip(), for the blanks that occur
RECURSIVE Strip(_)
Strip(s) ==
    IF Len(s) = 0 THEN s
    ELSE IF SubSeq(s, 1, 1) = " " THEN Strip(SubSeq(s, 2, Len(s)))
    ELSE IF SubSeq(s, Len(s), Len(s)) = " " THEN Strip(SubSeq(s, 1, Len(s) - 1))
    ELSE s

IsDigit(c) == Positions(Digits, c) # {}
DigitValue(c) == Min(Positions(Digits, c)) - 1

\* the number of leading digits of s
RECURSIVE DigitsPrefixLen(_)
DigitsPrefixLen(s) ==
    IF Len(s) = 0 \/ ~IsDigit(SubSeq(s, 1, 1)) THEN 0
    ELSE 1 + DigitsPrefixLen(SubSeq(s, 2, Len(s)))

\* int(s) succeeds on a non-empty run of digits
IsInt(s) == Len(s) > 0 /\ DigitsPrefixLen(s) = Len(s)

RECURSIVE ToInt(_)
ToInt(s) ==
    IF Len(s) = 0 THEN 0
    ELSE 10 * ToInt(SubSeq(s, 1, Len(s) - 1)) + DigitValue(SubSeq(s, Len(s), Len(s)))

\* str(n) for n >= 0
RECURSIVE ToStr(_)
ToStr(n) ==
    IF n < 10 THEN SubSeq(Digits, n + 1, n + 1)
    ELSE ToStr(n \div 10) \o SubSeq(Digits, (n % 10) + 1, (n % 10) + 1)

None == [k |-> "none", v |-> 0]
IntVal(n) == [k |-> "int", v |-> n]

(***************************************************************************)
(* ArchitectureAnalyzer                                                    *)
(***************************************************************************)
AnalyzerSkip ==
    {".git", "node_modules", "venv", "__pycache__", ".next", "dist", "build", ".cache"}

\* _scan_files: os.walk with dirs[:] pruned of the directories NAMED in skip_dirs
ArchitectureAnalyzer_scan_files(r) ==
    IF r.kind # "dir" THEN {}
    ELSE {p \in r.files : \A dir \in AncestorDirs(p) : BaseName(dir) \notin AnalyzerSkip}

ArchitectureAnalyzer_init_raises(r) == r.kind = "missing"

ComposeNamesShort == <<"docker-compose.yml", "docker-compose.yaml">>
ComposeNamesAll ==
    <<"docker-compose.yml", "docker-compose.yaml", "compose.yml", "compose.yaml">>

AnyIn(names, files) == \E i \in 1..Len(names) : names[i] \in files

\* _parse_docker_compose_services, with PyYAML installed.  The first compose file
\* that is in the snapshot and loads as a mapping decides: compose.get('services', {})
\* is {} without the key, None for "services:" with no value, the mapping otherwise.
\* A file that does not load as a mapping raises inside the try and is passed over.
\* (Every compose file of a root has the same content in this model.)
EmptyServices == [k |-> "map", entries |-> <<>>]

parse_docker_compose_services(files, r) ==
    IF ~AnyIn(ComposeNamesAll, files) \/ r.compose.doc # "map" THEN EmptyServices
    ELSE IF r.compose.services = "absent" THEN EmptyServices
    ELSE IF r.compose.services = "null" THEN [k |-> "null", entries |-> <<>>]
    ELSE [k |-> "map", entries |-> r.compose.entries]

infra_names ==
    {"db", "database", "postgres", "postgresql", "mysql", "mariadb", "mongo",
     "mongodb", "redis", "cache", "memcached", "rabbitmq", "kafka",
     "elasticsearch", "opensearch", "minio", "localstack"}

is_infrastructure_service(name) == Lower(name) \in infra_names

db_images ==
    {"postgres", "mysql", "mariadb", "mongo", "redis", "memcached", "rabbitmq",
     "kafka", "elasticsearch", "opensearch", "minio"}

\* for a str image; None has no lower() and raises
is_database_image(image) == \E db \in db_images : Contains(Lower(image), db)

AppServices(services) ==
    SelectSeq(services.entries, LAMBDA sv : ~is_infrastructure_service(sv.name))

\* iterating None raises TypeError
detect_architecture_type_raises(files, r) ==
    /\ AnyIn(ComposeNamesShort, files)
    /\ parse_docker_compose_services(files, r).k = "null"

frontend_dirs ==
    {"frontend", "client", "web", "ui", "app", "packages/frontend", "apps/web", "packages/web"}
backend_dirs ==
    {"backend", "server", "api", "services", "packages/backend", "apps/api", "packages/api"}

HasDir(dirs, files) == \E d \in dirs : \E f \in files : StartsWith(f, d \o "/")

static_indicators ==
    {"gatsby-config.js", "next.config.js", "nuxt.config.js", "astro.config.mjs",
     "vite.config.js", "vite.config.ts", "config.toml", "_config.yml", "hugo.toml"}

MicroservicesThreshold == 2

\* _detect_architecture_type
detect_architecture_type(files, r) ==
    LET has_frontend == HasDir(frontend_dirs, files)
        has_backend == HasDir(backend_dirs, files)
    IN  IF /\ AnyIn(ComposeNamesShort, files)
           /\ Len(AppServices(parse_docker_compose_services(files, r))) > MicroservicesThreshold
        THEN "microservices"
        ELSE IF has_frontend /\ has_backend THEN "full-stack"
        ELSE IF files \cap static_indicators # {}
             THEN IF "next.config.js" \in files \/ "next.config.mjs" \in files
                  THEN "full-stack" ELSE "static-site"
        ELSE IF has_frontend /\ ~has_backend THEN "static-site"
        ELSE "monolith"

RuntimeRule(runtime, names) == [runtime |-> runtime, names |-> names]

runtime_indicators ==
    << RuntimeRule("nodejs", {"package.json"}),
       RuntimeRule("python", {"requirements.txt", "Pipfile", "pyproject.toml", "setup.py"}),
       RuntimeRule("go", {"go.mod", "go.sum"}),
       RuntimeRule("ruby", {"Gemfile", "Gemfile.lock"}),
       RuntimeRule("php", {"composer.json", "composer.lock"}),
       RuntimeRule("java", {"pom.xml", "build.gradle", "build.gradle.kts"}),
       RuntimeRule("rust", {"Cargo.toml"}),
       RuntimeRule("dotnet", {}),
       RuntimeRule("elixir", {"mix.exs"}),
       RuntimeRule("bun", {"bun.lockb"}) >>

RuntimeMatches(rule, files) ==
    IF rule.runtime = "dotnet"
    THEN \E f \in files : EndsWith(f, ".csproj") \/ EndsWith(f, ".fsproj")
    ELSE rule.names \cap files # {}

\* _detect_runtime: the first rule of the table that matches
detect_runtime(files) ==
    LET hits == SelectSeq(runtime_indicators, LAMBDA rule : RuntimeMatches(rule, files))
    IN  IF hits = <<>> THEN "unknown" ELSE hits[1].runtime

\* _detect_build_method
detect_build_method(files) ==
    IF "Dockerfile" \in files THEN "dockerfile"
    ELSE IF AnyIn(ComposeNamesAll, files) THEN "docker-compose"
    ELSE IF detect_runtime(files) # "unknown" THEN "buildpack-" \o detect_runtime(files)
    ELSE "buildpack"

PortNode == 3000
PortPython == 8000
PortDefault == 8080

\* _detect_default_port: the first EXPOSE line of the Dockerfile when its port
\* converts (int() raising is caught), else the runtime's convention
detect_default_port(files, r) ==
    IF "Dockerfile" \in files /\ r.dockerfile.expose = "num" THEN r.dockerfile.port
    ELSE LET runtime == detect_runtime(files)
         IN  IF runtime \in {"nodejs", "ruby"} THEN PortNode
             ELSE IF runtime = "python" THEN PortPython
             ELSE PortDefault

\* a component dict; has_dockerfile is "absent" when the dict has no such key
Component(name, type, source_dir, port, has_dockerfile, command, image) ==
    [name |-> name, type |-> type, source_dir |-> source_dir, port |-> port,
     has_dockerfile |-> has_dockerfile, command |-> command, image |-> image]

Tri(b) == IF b THEN "true" ELSE "false"

\* line.split(':', 1)
BeforeColon(line) == SubSeq(line, 1, Min(Positions(line, ":")) - 1)
AfterColon(line) == SubSeq(line, Min(Positions(line, ":")) + 1, Len(line))

procfile_comp_type(name) ==
    IF name = "release" THEN "job" ELSE IF name = "web" THEN "service" ELSE "worker"

\* _parse_procfile: one component per line that holds a ":" and is no comment
parse_procfile(files, r) ==
    LET lines == SelectSeq(r.procfile,
                     LAMBDA line : Contains(line, ":") /\ ~StartsWith(Strip(line), "#"))
    IN  [i \in 1..Len(lines) |->
            LET name == Strip(BeforeColon(lines[i]))
                comp_type == procfile_comp_type(name)
            IN  Component(name, comp_type, "/",
                          IF comp_type = "service"
                          THEN IntVal(detect_default_port(files, r)) ELSE None,
                          "absent", Str(Strip(AfterColon(lines[i]))), Absent)]

\* the text int() is applied to for the first published port
PortText(port_mapping) ==
    IF Contains(port_mapping, ":")
    THEN Split(Split(port_mapping, ":")[2], "/")[1]
    ELSE Split(port_mapping, "/")[1]

ImageText(sv) == IF sv.image.k = "absent" THEN "" ELSE sv.image.v

\* the loop body of _parse_docker_compose_components raises on this entry:
\* config is None, image is None, or the first port is no integer
compose_entry_raises(sv) ==
    /\ ~is_infrastructure_service(sv.name)
    /\ \/ sv.body = "null"
       \/ sv.image.k = "null"
       \/ /\ ~is_database_image(ImageText(sv))
          /\ sv.ports # <<>>
          /\ ~IsInt(PortText(sv.ports[1]))

compose_entry_kept(sv) ==
    ~is_infrastructure_service(sv.name) /\ ~is_database_image(ImageText(sv))

compose_comp_type(sv) == IF sv.ports # <<>> THEN "service" ELSE "worker"

compose_component(sv) ==
    Component(sv.name, compose_comp_type(sv),
              IF sv.build.k = "str" THEN sv.build.v
              ELSE IF sv.build.k = "dict" /\ sv.build.v # "" THEN sv.build.v
              ELSE "/",
              IF sv.ports # <<>> THEN IntVal(ToInt(PortText(sv.ports[1]))) ELSE None,
              Tri(sv.build.k # "absent"),
              Null,
              IF sv.build.k # "absent" THEN Null ELSE Str(ImageText(sv)))

\* _parse_docker_compose_components has no try: None.items() and the loop body raise
parse_docker_compose_components_raises(files, r) ==
    LET services == parse_docker_compose_services(files, r)
    IN  \/ services.k = "null"
        \/ \E i \in 1..Len(services.entries) : compose_entry_raises(services.entries[i])

parse_docker_compose_components(files, r) ==
    LET kept == SelectSeq(parse_docker_compose_services(files, r).entries, compose_entry_kept)
    IN  [i \in 1..Len(kept) |-> compose_component(kept[i])]

RenderNames == <<"render.yaml", "render.yml">>

render_comp_type(svc_type) ==
    CASE svc_type = "web" -> "service"
      [] svc_type = "worker" -> "worker"
      [] svc_type = "cron" -> "job"
      [] svc_type = "static" -> "static_site"
      [] OTHER -> "service"

\* _parse_render_yaml: a file that does not load as a mapping raises before the
\* loop, which is caught and leaves the list empty.  The services of the roots
\* declare type, name and port only: rootDir, buildCommand, startCommand and
\* healthCheckPath are absent, so source_dir is '/' and no command is carried.
parse_render_yaml(files, r) ==
    IF ~AnyIn(RenderNames, files) \/ r.render.doc # "map" THEN <<>>
    ELSE [i \in 1..Len(r.render.services) |->
            LET service == r.render.services[i]
            IN  Component(IF service.name.k = "absent" THEN "web" ELSE service.name.v,
                          render_comp_type(IF service.type.k = "absent" THEN "web"
                                           ELSE service.type.v),
                          "/", service.port, "absent", Absent, Absent)]

FlyDefaultPort == 8080

\* _parse_fly_toml
parse_fly_toml(files, r) ==
    << Component(IF r.fly.app = "" THEN "web" ELSE r.fly.app, "service", "/",
                 IntVal(IF r.fly.internal_port = 0 THEN FlyDefaultPort
                        ELSE r.fly.internal_port),
                 Tri("Dockerfile" \in files), Absent, Absent) >>

detect_components_raises(files, r) ==
    /\ "Procfile" \notin files
    /\ AnyIn(ComposeNamesShort, files)
    /\ parse_docker_compose_components_raises(files, r)

\* detect_components without the implicit web service
detect_components_no_default(files, r) ==
    IF "Procfile" \in files THEN parse_procfile(files, r)
    ELSE IF AnyIn(ComposeNamesShort, files) THEN parse_docker_compose_components(files, r)
    ELSE IF AnyIn(RenderNames, files) THEN parse_render_yaml(files, r)
    ELSE IF "fly.toml" \in files THEN parse_fly_toml(files, r)
    ELSE <<>>

\* _detect_components: one manifest, then the implicit web service
detect_components(files, r) ==
    LET components ==
            IF "Procfile" \in files THEN parse_procfile(files, r)
            ELSE IF AnyIn(ComposeNamesShort, files)
                 THEN parse_docker_compose_components(files, r)
            ELSE IF AnyIn(RenderNames, files) THEN parse_render_yaml(files, r)
            ELSE IF "fly.toml" \in files THEN parse_fly_toml(files, r)
            ELSE <<>>
    IN  IF components # <<>> THEN components
        ELSE << Component("web", "service", "/", IntVal(detect_default_port(files, r)),
                          Tri("Dockerfile" \in files), Absent, Absent) >>

\* a dependency entry; version is Absent when the dict has no such key and Null
\* when _extract_image_version found none
Dep(type, source, version, service_name, inferred) ==
    [type |-> type, source |-> source, version |-> version,
     service_name |-> service_name, inferred |-> inferred]

\* re.match(r'(\d+(?:\.\d+)*)', tag): the length of the match, 0 for no match
RECURSIVE VersionMatchLen(_, _)
VersionMatchLen(tag, n) ==
    IF /\ n > 0
       /\ n + 2 <= Len(tag)
       /\ SubSeq(tag, n + 1, n + 1) = "."
       /\ DigitsPrefixLen(SubSeq(tag, n + 2, Len(tag))) > 0
    THEN VersionMatchLen(tag, n + 1 + DigitsPrefixLen(SubSeq(tag, n + 2, Len(tag))))
    ELSE n

\* _extract_image_version
extract_image_version(image) ==
    IF ~Contains(image, ":") THEN Null
    ELSE LET tag == Split(image, ":")[2]
             n == VersionMatchLen(tag, DigitsPrefixLen(tag))
         IN  IF n = 0 THEN Null ELSE Str(SubSeq(tag, 1, n))

\* the if/elif chain of _detect_dependencies on the lower-cased image
ImageFamily(image) ==
    CASE Contains(image, "postgres") \/ Contains(image, "postgresql") -> <<"databases", "postgres">>
      [] Contains(image, "mysql") \/ Contains(image, "mariadb") -> <<"databases", "mysql">>
      [] Contains(image, "mongo") -> <<"databases", "mongodb">>
      [] Contains(image, "redis") -> <<"caches", "redis">>
      [] Contains(image, "memcached") -> <<"caches", "memcached">>
      [] Contains(image, "rabbitmq") -> <<"queues", "rabbitmq">>
      [] Contains(image, "kafka") -> <<"queues", "kafka">>
      [] Contains(image, "minio") -> <<"storage", "s3">>
      [] OTHER -> <<"", "">>

ComposeDeps(services, family) ==
    LET hits == SelectSeq(services.entries,
                    LAMBDA sv : ImageFamily(Lower(ImageText(sv)))[1] = family)
    IN  [i \in 1..Len(hits) |->
            LET image == Lower(ImageText(hits[i]))
            IN  Dep(ImageFamily(image)[2], "docker: " \o image,
                    IF family = "databases" \/ ImageFamily(image)[2] = "redis"
                    THEN extract_image_version(image) ELSE Absent,
                    hits[i].name, FALSE)]

\* the addons of app.json; a file that does not load leaves nothing
Addons(files, r) ==
    IF "app.json" \in files /\ r.appjson.doc = "map" THEN r.appjson.addons ELSE <<>>

AddonFamily(addon_name) ==
    IF Contains(Lower(addon_name), "postgresql") \/ Contains(Lower(addon_name), "postgres")
    THEN <<"databases", "postgres">>
    ELSE IF Contains(Lower(addon_name), "redis") THEN <<"caches", "redis">>
    ELSE <<"", "">>

AddonDeps(files, r, family) ==
    LET hits == SelectSeq(Addons(files, r), LAMBDA a : AddonFamily(a)[1] = family)
    IN  [i \in 1..Len(hits) |->
            Dep(AddonFamily(hits[i])[2], "heroku: " \o hits[i], Absent, "", FALSE)]

HasType(entries, type) == \E i \in 1..Len(entries) : entries[i].type = type

InferredDep(type, env_file) == Dep(type, "env file: " \o env_file, Absent, "", TRUE)

\* enhance_from_env_file without the test for an entry of the type
enhance_from_env_file_unchecked(deps, env_file, content) ==
    LET d1 == IF Contains(content, "postgres")
              THEN [deps EXCEPT !.databases = Append(@, InferredDep("postgres", env_file))]
              ELSE deps
        d2 == IF Contains(content, "mysql")
              THEN [d1 EXCEPT !.databases = Append(@, InferredDep("mysql", env_file))]
              ELSE d1
        d3 == IF Contains(content, "redis")
              THEN [d2 EXCEPT !.caches = Append(@, InferredDep("redis", env_file))]
              ELSE d2
    IN  d3

\* the body of _enhance_deps_from_code's loop for one environment file
enhance_from_env_file(deps, env_file, content) ==
    LET d1 == IF Contains(content, "postgres") /\ ~HasType(deps.databases, "postgres")
              THEN [deps EXCEPT !.databases = Append(@, InferredDep("postgres", env_file))]
              ELSE deps
        d2 == IF Contains(content, "mysql") /\ ~HasType(d1.databases, "mysql")
              THEN [d1 EXCEPT !.databases = Append(@, InferredDep("mysql", env_file))]
              ELSE d1
        d3 == IF Contains(content, "redis") /\ ~HasType(d2.caches, "redis")
              THEN [d2 EXCEPT !.caches = Append(@, InferredDep("redis", env_file))]
              ELSE d2
        d4 == IF /\ \/ Contains(content, "s3")
                    \/ Contains(content, "aws_access")
                    \/ Contains(content, "spaces")
                 /\ d3.storage = <<>>
              THEN [d3 EXCEPT !.storage = Append(@, InferredDep("s3", env_file))]
              ELSE d3
    IN  d4

\* read_text() of an environment file
EnvContent(r, env_file) == IF env_file \in EnvPaths THEN r.envText[env_file] ELSE ""

RECURSIVE enhance_deps_loop(_, _, _)
enhance_deps_loop(deps, env_files, r) ==
    IF env_files = <<>> THEN deps
    ELSE enhance_deps_loop(
             enhance_from_env_file(deps, Head(env_files), Lower(EnvContent(r, Head(env_files)))),
             Tail(env_files), r)

\* _enhance_deps_from_code: env_files is a comprehension over the set self.files
enhance_deps_from_code(deps, files, r, seed) ==
    enhance_deps_loop(deps,
        SelectSeq(IterationOrder(files, seed), LAMBDA f : Contains(Lower(f), ".env")), r)

\* _detect_dependencies has no try around the compose loop: None.items(),
\* config.get on None and None.lower() raise
detect_dependencies_raises(files, r) ==
    LET services == parse_docker_compose_services(files, r)
    IN  \/ services.k = "null"
        \/ \E i \in 1..Len(services.entries) :
              services.entries[i].body = "null" \/ services.entries[i].image.k = "null"

\* _detect_dependencies
detect_dependencies(files, r, seed) ==
    LET services == parse_docker_compose_services(files, r)
        structural ==
            [databases |-> ComposeDeps(services, "databases") \o AddonDeps(files, r, "databases"),
             caches |-> ComposeDeps(services, "caches") \o AddonDeps(files, r, "caches"),
             queues |-> ComposeDeps(services, "queues"),
             storage |-> ComposeDeps(services, "storage")]
    IN  enhance_deps_from_code(structural, files, r, seed)

env_patterns == <<".env.example", ".env.sample", ".env.template", "env.example">>

\* _detect_env_files
detect_env_files(files) == SelectSeq(env_patterns, LAMBDA f : f \in files)

\* the report of analyze(), without runtime_version, has_tests and monorepo_structure,
\* which no other part of the pipeline reads
NoReport ==
    [architecture_type |-> "", runtime |-> "", build_method |-> "", components |-> <<>>,
     dependencies |-> [databases |-> <<>>, caches |-> <<>>, queues |-> <<>>, storage |-> <<>>],
     default_port |-> 0, environment_files |-> <<>>, has_dockerfile |-> FALSE,
     has_docker_compose |-> FALSE]

ArchitectureAnalyzer_analyze_raises(files, r) ==
    \/ detect_architecture_type_raises(files, r)
    \/ detect_components_raises(files, r)
    \/ detect_dependencies_raises(files, r)

ArchitectureAnalyzer_analyze(files, r, seed) ==
    [architecture_type |-> detect_architecture_type(files, r),
     runtime |-> detect_runtime(files),
     build_method |-> detect_build_method(files),
     components |-> detect_components(files, r),
     dependencies |-> detect_dependencies(files, r, seed),
     default_port |-> detect_default_port(files, r),
     environment_files |-> detect_env_files(files),
     has_dockerfile |-> "Dockerfile" \in files,
     has_docker_compose |-> AnyIn(ComposeNamesShort, files)]

\* the outcome of one call: an exception, or the report returned
Raised == [raised |-> TRUE, report |-> NoReport]
Returned(report) == [raised |-> FALSE, report |-> report]

AnalyzeOutcome(files, r, seed) ==
    IF ArchitectureAnalyzer_analyze_raises(files, r) THEN Raised
    ELSE Returned(ArchitectureAnalyzer_analyze(files, r, seed))

NoAnalyzer == [state |-> "none", files |-> {}, outcomes |-> <<>>]

ArchitectureAnalyzer_init(r) ==
    IF ArchitectureAnalyzer_init_raises(r)
    THEN [NoAnalyzer EXCEPT !.state = "ValueError"]
    ELSE [NoAnalyzer EXCEPT !.state = "ready", !.files = ArchitectureAnalyzer_scan_files(r)]

\* a snapshot that one analysis uses up
SnapshotConsumed(files) == {}

\* what analyze() leaves of the snapshot: it assigns nothing
SnapshotAfterAnalyze(files) == files

(***************************************************************************)
(* AppSpecGenerator                                                        *)
(***************************************************************************)
\* INSTANCE_SIZES: the fallback table (no shared instance-sizes.yaml is shipped
\* beside the scripts)
INSTANCE_SIZES ==
    [test |-> [service |-> "apps-s-1vcpu-1gb", worker |-> "apps-s-1vcpu-0.5gb",
               job |-> "apps-s-1vcpu-0.5gb"],
     production |-> [service |-> "apps-d-1vcpu-2gb", worker |-> "apps-d-1vcpu-1gb",
                     job |-> "apps-s-1vcpu-1gb"]]

\* self.INSTANCE_SIZES[self.environment if self.environment in self.INSTANCE_SIZES else 'test']
instance_sizes(environment) ==
    IF environment \in DOMAIN INSTANCE_SIZES THEN INSTANCE_SIZES[environment]
    ELSE INSTANCE_SIZES["test"]

Env(key, value, type) == [key |-> key, scope |-> "RUN_TIME", value |-> value, type |-> type]

DbBindings(databases) ==
    LET bound == SelectSeq(databases, LAMBDA db : db.type \in {"postgres", "mysql"})
    IN  [i \in 1..Len(bound) |->
            Env(IF bound[i].type = "postgres" THEN "DATABASE_URL" ELSE "MYSQL_URL",
                Str("${db.DATABASE_URL}"), Absent)]

\* cache_bindings without the alias
cache_bindings_no_alias == << Env("VALKEY_URL", Str("${cache.DATABASE_URL}"), Absent) >>

cache_bindings ==
    << Env("VALKEY_URL", Str("${cache.DATABASE_URL}"), Absent),
       Env("REDIS_URL", Str("${cache.DATABASE_URL}"), Absent) >>

CacheBindings(caches) ==
    LET bound == SelectSeq(caches, LAMBDA cache : cache.type \in {"redis", "valkey"})
    IN  Flatten([i \in 1..Len(bound) |-> cache_bindings])

common_secrets == <<"SECRET_KEY", "API_KEY", "JWT_SECRET">>

\* _generate_env_vars: the same list for every component
generate_env_vars(architecture) ==
    DbBindings(architecture.dependencies.databases)
        \o CacheBindings(architecture.dependencies.caches)
        \o [i \in 1..Len(common_secrets) |-> Env(common_secrets[i], Absent, Str("SECRET"))]
        \o << Env("PORT", Str(ToStr(architecture.default_port)), Absent) >>

buildpack_map ==
    [nodejs |-> "node-js", python |-> "python", go |-> "go", ruby |-> "ruby",
     php |-> "php", bun |-> "bun"]

NoAutoscaling ==
    [present |-> FALSE, min_instance_count |-> 0, max_instance_count |-> 0, percent |-> 0]

AutoscalingMin == 2
AutoscalingMax == 5
AutoscalingPercent == 80
ProductionCount == 2
DefaultCount == 1

production_autoscaling ==
    [present |-> TRUE, min_instance_count |-> AutoscalingMin,
     max_instance_count |-> AutoscalingMax, percent |-> AutoscalingPercent]

\* instance_count of a service or worker
instance_count(environment) ==
    IF environment = "production" THEN ProductionCount ELSE DefaultCount

\* service_autoscaling in every environment
service_autoscaling_always(environment) == production_autoscaling

\* the autoscaling block of a service, absent outside production
service_autoscaling(environment) ==
    IF environment = "production" THEN production_autoscaling ELSE NoAutoscaling

\* component.get('has_dockerfile', self.architecture['has_dockerfile'])
uses_dockerfile(component, architecture) ==
    IF component.has_dockerfile = "absent" THEN architecture.has_dockerfile
    ELSE component.has_dockerfile = "true"

\* component.get('port') or self.architecture['default_port']
http_port(component, architecture) ==
    IF component.port.k = "int" /\ component.port.v # 0 THEN component.port.v
    ELSE architecture.default_port

Truthy(value) == value.k = "str" /\ value.v # ""

\* _generate_component_spec; "" and None stand for a key the dict does not have
generate_component_spec(component, architecture, environment, repo_url, branch) ==
    LET comp_type == component.type
        sizes == instance_sizes(environment)
        dockerfile == uses_dockerfile(component, architecture)
    IN  [name |-> component.name,
         git |-> IF Truthy(repo_url) THEN <<repo_url.v, branch>> ELSE <<>>,
         source_dir |-> IF component.source_dir # "/" THEN component.source_dir ELSE "",
         dockerfile_path |-> IF dockerfile THEN "Dockerfile" ELSE "",
         environment_slug |->
             IF ~dockerfile /\ architecture.runtime \in DOMAIN buildpack_map
             THEN buildpack_map[architecture.runtime] ELSE "",
         http_port |->
             IF comp_type = "service" THEN IntVal(http_port(component, architecture)) ELSE None,
         instance_size_slug |->
             IF comp_type \in {"service", "worker", "job"} THEN sizes[comp_type] ELSE "",
         instance_count |->
             IF comp_type \in {"service", "worker"} THEN IntVal(instance_count(environment))
             ELSE None,
         health_check |-> IF comp_type = "service" THEN "/health" ELSE "",
         autoscaling |->
             IF comp_type = "service" THEN service_autoscaling(environment)
             ELSE NoAutoscaling,
         run_command |->
             IF comp_type \in {"worker", "job"} /\ Truthy(component.command)
             THEN component.command ELSE Absent,
         kind |-> IF comp_type = "job" THEN "PRE_DEPLOY" ELSE "",
         build_command |->
             IF comp_type = "static_site" /\ architecture.runtime = "nodejs"
             THEN "npm run build" ELSE "",
         output_dir |-> IF comp_type = "static_site" THEN "dist" ELSE "",
         envs |-> generate_env_vars(architecture)]

DbSpec(name, engine, version, production, cluster_name) ==
    [name |-> name, engine |-> engine, version |-> version,
     production |-> production, cluster_name |-> cluster_name]

OfType(entries, types) == SelectSeq(entries, LAMBDA d : d.type \in types)

Doctl(cluster, engine) ==
    "  doctl databases create " \o cluster \o " --engine " \o engine
        \o " --region nyc --size db-s-1vcpu-1gb"

\* version passed through when its major number is one of 14, 15, 16
postgres_version(dep) ==
    IF dep.version.k = "str" /\ dep.version.v # ""
          /\ Split(dep.version.v, ".")[1] \in {"14", "15", "16"}
    THEN Str(Split(dep.version.v, ".")[1]) ELSE Absent

\* postgres_spec with a production cluster in every environment
postgres_spec_always_production(postgres_deps, app_name, environment) ==
    DbSpec("db", "PG", postgres_version(postgres_deps[1]), TRUE, Str(app_name \o "-db"))

\* the PostgreSQL block of _generate_database_specs
postgres_spec(postgres_deps, app_name, environment) ==
    IF environment = "production"
    THEN DbSpec("db", "PG", postgres_version(postgres_deps[1]), TRUE, Str(app_name \o "-db"))
    ELSE DbSpec("db", "PG", postgres_version(postgres_deps[1]), FALSE, Absent)

\* the Valkey block of _generate_database_specs
cache_spec(app_name, environment) ==
    IF environment = "production"
    THEN DbSpec("cache", "VALKEY", Absent, TRUE, Str(app_name \o "-cache"))
    ELSE DbSpec("cache", "VALKEY", Absent, FALSE, Absent)

RabbitUnmapped(queue) ==
    [type |-> "queue", name |-> "RabbitMQ", source |-> queue.source,
     reason |-> "No direct equivalent on App Platform",
     options |-> <<"Use external RabbitMQ service (CloudAMQP, etc.)",
                   "Consider using Kafka (supported on DO)",
                   "Use Redis/Valkey for simple queue patterns">>]

\* _generate_database_specs: the list returned, and what the call appends to
\* self.warnings and self.unmapped_items
generate_database_specs(architecture, app_name, environment) ==
    LET deps == architecture.dependencies
        postgres_deps == OfType(deps.databases, {"postgres"})
        mysql_deps == OfType(deps.databases, {"mysql"})
        mongo_deps == OfType(deps.databases, {"mongodb"})
        cache_deps == OfType(deps.caches, {"redis", "valkey"})
        rabbits == OfType(deps.queues, {"rabbitmq"})
        production == environment = "production"
    IN  [databases |->
             (IF postgres_deps # <<>>
              THEN <<postgres_spec(postgres_deps, app_name, environment)>> ELSE <<>>)
             \o (IF mysql_deps # <<>>
                 THEN <<DbSpec("mysqldb", "MYSQL", Absent, TRUE, Str(app_name \o "-mysql"))>>
                 ELSE <<>>)
             \o (IF mongo_deps # <<>>
                 THEN <<DbSpec("mongodb", "MONGODB", Absent, TRUE, Str(app_name \o "-mongo"))>>
                 ELSE <<>>)
             \o (IF cache_deps # <<>> THEN <<cache_spec(app_name, environment)>> ELSE <<>>),
         warnings |->
             (IF postgres_deps # <<>> /\ production
              THEN <<"Production database: Create cluster first with:\n"
                        \o Doctl(app_name \o "-db", "pg")>> ELSE <<>>)
             \o (IF mysql_deps # <<>>
                 THEN <<"MySQL requires managed database (no dev DB option). Create cluster first with:\n"
                           \o Doctl(app_name \o "-mysql", "mysql")>> ELSE <<>>)
             \o (IF mongo_deps # <<>>
                 THEN <<"MongoDB requires managed database. Create cluster first with:\n"
                           \o Doctl(app_name \o "-mongo", "mongodb")>> ELSE <<>>)
             \o (IF cache_deps # <<>> /\ production
                 THEN <<"Cache cluster: Create with:\n" \o Doctl(app_name \o "-cache", "valkey")>>
                 ELSE <<>>)
             \o (IF HasType(cache_deps, "redis")
                 THEN <<"Redis -> Valkey: Redis is EOL on DigitalOcean. Using Valkey (Redis-compatible). Update any REDIS_URL references to VALKEY_URL in your code.">>
                 ELSE <<>>),
         unmapped_items |-> [i \in 1..Len(rabbits) |-> RabbitUnmapped(rabbits[i])]]

NoSpec ==
    [name |-> "", region |-> "", services |-> <<>>, workers |-> <<>>, jobs |-> <<>>,
     static_sites |-> <<>>, databases |-> <<>>]

\* spec_name without the test of the environment string
spec_name_always_joined(app_name, environment) == app_name \o "-" \o environment

\* the name of the spec: the environment is left out when it is an empty string
spec_name(app_name, environment) ==
    IF environment # "" THEN app_name \o "-" \o environment ELSE app_name

ComponentSpecs(architecture, environment, repo_url, branch, type) ==
    LET comps == SelectSeq(architecture.components, LAMBDA c : c.type = type)
    IN  [i \in 1..Len(comps) |->
            generate_component_spec(comps[i], architecture, environment, repo_url, branch)]

\* generate(): the spec returned; an empty list stands for a key left out
AppSpecGenerator_generate(architecture, app_name, environment, repo_url, branch) ==
    [name |-> spec_name(app_name, environment),
     region |-> "nyc",
     services |-> ComponentSpecs(architecture, environment, repo_url, branch, "service"),
     workers |-> ComponentSpecs(architecture, environment, repo_url, branch, "worker"),
     jobs |-> ComponentSpecs(architecture, environment, repo_url, branch, "job"),
     static_sites |-> ComponentSpecs(architecture, environment, repo_url, branch, "static_site"),
     databases |-> generate_database_specs(architecture, app_name, environment).databases]

NoGenerator ==
    [state |-> "none", app_name |-> "", environment |-> "",
     platform_info |-> NoDetection, architecture |-> NoReport,
     unmapped_items |-> <<>>, warnings |-> <<>>, specs |-> <<>>,
     templates |-> <<>>, reports |-> <<>>]

\* __init__: the detector and the analyzer are built and run; ValueError from either
\* constructor and whatever analyze() raises leave no generator
AppSpecGenerator_init(r, seed, app_name, environment) ==
    IF PlatformDetector_init_raises(r) \/ ArchitectureAnalyzer_init_raises(r)
    THEN [NoGenerator EXCEPT !.state = "ValueError"]
    ELSE IF ArchitectureAnalyzer_analyze_raises(ArchitectureAnalyzer_scan_files(r), r)
    THEN [NoGenerator EXCEPT !.state = "Exception"]
    ELSE [NoGenerator EXCEPT
            !.state = "ready", !.app_name = app_name, !.environment = environment,
            !.platform_info =
                PlatformDetector_detect(PlatformDetector_scan_files(r),
                                        PlatformDetector_scan_dirs(r), seed),
            !.architecture =
                ArchitectureAnalyzer_analyze(ArchitectureAnalyzer_scan_files(r), r, seed)]

\* the loops of generate_deploy_template over the spec generate() returned: the
\* keys instance_count and autoscaling are deleted from services, and PG and
\* VALKEY entries are made dev databases
template_service(service) ==
    [service EXCEPT !.instance_count = None, !.autoscaling = NoAutoscaling]

template_engines == {"PG", "VALKEY"}

\* template_database that leaves every entry as generate() built it
template_database_unchanged(db) == db

template_database(db) ==
    IF db.engine \in template_engines
    THEN [db EXCEPT !.production = FALSE, !.cluster_name = Absent]
    ELSE db

\* generate_deploy_template(repo_url): the spec returned
AppSpecGenerator_generate_deploy_template(architecture, app_name, environment, repo_url) ==
    LET spec == AppSpecGenerator_generate(architecture, app_name, environment,
                                          Str(repo_url), "main")
    IN  [spec EXCEPT
            !.services = [i \in 1..Len(spec.services) |-> template_service(spec.services[i])],
            !.databases = [i \in 1..Len(spec.databases) |-> template_database(spec.databases[i])]]

\* get_migration_report(), without generated_at
AppSpecGenerator_get_migration_report(gen) ==
    [source_platform |-> gen.platform_info.primary_platform,
     source_description |-> gen.platform_info.primary_description,
     config_files |-> gen.platform_info.config_files,
     architecture |-> [type |-> gen.architecture.architecture_type,
                       runtime |-> gen.architecture.runtime,
                       build_method |-> gen.architecture.build_method],
     components_mapped |-> Len(gen.architecture.components),
     components |->
         [i \in 1..Len(gen.architecture.components) |->
             [name |-> gen.architecture.components[i].name,
              type |-> gen.architecture.components[i].type,
              mapped_to |-> "App Platform " \o gen.architecture.components[i].type]],
     dependencies |-> gen.architecture.dependencies,
     unmapped_items |-> gen.unmapped_items,
     warnings |-> gen.warnings,
     requires_user_decision |-> Len(gen.unmapped_items) > 0]

\* a report that empties the accumulators it has read
GeneratorAfterReport_cleared(gen) == [gen EXCEPT !.unmapped_items = <<>>, !.warnings = <<>>]

\* what get_migration_report() leaves of the generator: it assigns nothing
GeneratorAfterReport(gen) == gen


(***************************************************************************)
(* generate_checklist (skills/migration/scripts/generate_checklist.py).    *)
(* The document is a list of lines; the model keeps the lines of the       *)
(* summary table that count components and decisions, the section of       *)
(* unmapped items and the section of warnings.  The other sections do not  *)
(* read the generators.  The warning sign of the two section headers is    *)
(* left out of the strings.                                                *)
(***************************************************************************)
RECURSIVE FirstOccurrences(_)
FirstOccurrences(seq) ==
    IF seq = <<>> THEN <<>>
    ELSE <<Head(seq)>> \o FirstOccurrences(SelectSeq(Tail(seq), LAMBDA x : x # Head(seq)))

\* list(set(seq)): each element once, in this process's iteration order
ListOfSet(seq, seed) ==
    IF seed = 0 THEN FirstOccurrences(seq) ELSE Reverse(FirstOccurrences(seq))

summary_rows(architecture, test_generator) ==
    << "| Components Detected | " \o ToStr(Len(architecture.components)) \o " |",
       "| Successfully Mapped | "
           \o ToStr(Len(architecture.components) - Len(test_generator.unmapped_items))
           \o " |",
       "| Requires Decision | " \o ToStr(Len(test_generator.unmapped_items)) \o " |" >>

UnmappedHeader == "\n### Requires Your Decision\n"

unmapped_item_lines(item) ==
    << "\n**" \o item.name \o "**", "- Source: " \o item.source,
       "- Issue: " \o item.reason, "- Options:" >>
    \o [i \in 1..Len(item.options) |-> "  - [ ] " \o item.options[i]]

\* if test_generator.unmapped_items: ...
unmapped_section(test_generator) ==
    IF test_generator.unmapped_items = <<>> THEN <<>>
    ELSE <<UnmappedHeader>>
         \o Flatten([i \in 1..Len(test_generator.unmapped_items) |->
                        unmapped_item_lines(test_generator.unmapped_items[i])])

WarningsHeader == "\n## Warnings\n"

\* if test_generator.warnings or prod_generator.warnings: ...
warnings_section(test_generator, prod_generator, seed) ==
    IF test_generator.warnings = <<>> /\ prod_generator.warnings = <<>> THEN <<>>
    ELSE LET all_warnings ==
                 ListOfSet(test_generator.warnings \o prod_generator.warnings, seed)
         IN  <<WarningsHeader>> \o [i \in 1..Len(all_warnings) |-> "- " \o all_warnings[i]]

\* the constructors and analyses at the head of generate_checklist raise
generate_checklist_raises(r) ==
    \/ PlatformDetector_init_raises(r)
    \/ ArchitectureAnalyzer_analyze_raises(ArchitectureAnalyzer_scan_files(r), r)

NoChecklist == [state |-> "none", app_name |-> "", lines |-> <<>>]

\* generate_checklist(repo_path, app_name): the two generators are constructed
\* and asked for get_migration_report(); generate() is called on neither
generate_checklist(r, seed, app_name) ==
    IF generate_checklist_raises(r)
    THEN [NoChecklist EXCEPT !.state = "raised", !.app_name = app_name]
    ELSE LET architecture ==
                 ArchitectureAnalyzer_analyze(ArchitectureAnalyzer_scan_files(r), r, seed)
             test_generator ==
                 GeneratorAfterReport(AppSpecGenerator_init(r, seed, app_name, "test"))
             prod_generator ==
                 GeneratorAfterReport(AppSpecGenerator_init(r, seed, app_name, "production"))
         IN  [state |-> "returned", app_name |-> app_name,
              lines |-> <<"# Migration Report: " \o app_name>>
                        \o summary_rows(architecture, test_generator)
                        \o unmapped_section(test_generator)
                        \o warnings_section(test_generator, prod_generator, seed)]


(***************************************************************************)
(* Instances and roots.                                                    *)
(***************************************************************************)
DetIds == {"d1"}
AnIds == {"a1", "a2"}
GenIds == {"g1", "g2"}

BoundedSubsets(S, n) == {T \in SUBSET S : Cardinality(T) <= n}

\* roots of the detection runs: indicator files of every rule, files that only
\* look like one, files in and beside noise directories
DetectFiles ==
    {"Procfile", "app.json", "render.yaml", "railway.json", "fly.toml",
     "docker-compose.yml", "compose.yml", "deploy/task-definition.json",
     ".aws/task-definition.json", "rebuild/task-definition.json",
     "build/task-definition.json", "task-definition.json", "apprunner.yaml",
     "Dockerrun.aws.json", "Dockerfile", "README.md"}

DetectRoots ==
    {[EmptyRoot EXCEPT !.kind = "missing"], [EmptyRoot EXCEPT !.kind = "file"]}
    \cup {[EmptyRoot EXCEPT !.files = fs, !.dirs = ds] :
            fs \in BoundedSubsets(DetectFiles, MaxFiles + 1),
            ds \in SUBSET {".elasticbeanstalk"}}

\* contents of the manifests of the analysis runs
Published(name, ports) == Service(name, "map", Absent, Str("."), ports)
Image(name, image) == Service(name, "map", Str(image), Absent, <<>>)
Compose(entries) == [doc |-> "map", services |-> "map", entries |-> entries]

ComposeDocs ==
    { [NoCompose EXCEPT !.doc = "bad"],
      [NoCompose EXCEPT !.services = "null"],
      Compose(<<Published("web", <<"8080:8080">>), Image("postgres", "postgres:15")>>),
      Compose(<<Published("api", <<"127.0.0.1:8080:80">>), Published("web", <<>>),
                Published("release", <<>>), Image("store", "Redis:7.2-alpine")>>),
      Compose(<<Service("api", "null", Absent, Absent, <<>>)>>),
      Compose(<<Service("api", "map", Null, Absent, <<>>)>>),
      Compose(<<Published("api", <<"8000-8010:8000-8010">>)>>),
      Compose(<<Image("pg", "postgres:14.2"), Image("mq", "rabbitmq:3"),
                Image("maria", "mariadb:latest")>>) }

Procfiles ==
    { <<"web: python app.py", "worker: python worker.py">>,
      <<"# processes", "release: migrate", "web : run">>,
      <<>> }

RenderService(type, name, port) == [type |-> type, name |-> name, port |-> port]

RenderDocs ==
    { [NoRender EXCEPT !.doc = "bad"],
      [NoRender EXCEPT !.services =
          <<RenderService(Str("web"), Str("api"), IntVal(10000)),
            RenderService(Str("worker"), Str("api"), None)>>],
      [NoRender EXCEPT !.services = <<RenderService(Absent, Absent, None)>>] }

FlyDocs == {NoFly, [app |-> "myfly", internal_port |-> 3000]}

Dockerfiles ==
    {NoDockerfile, [expose |-> "num", port |-> 5000], [expose |-> "bad", port |-> 0]}

AppJsons ==
    { [NoAppJson EXCEPT !.doc = "bad"],
      [NoAppJson EXCEPT !.addons = <<"heroku-postgresql:hobby-dev", "heroku-redis">>],
      NoAppJson }

EnvTexts == {"", "DATABASE_URL=postgres://h/db REDIS_URL=redis://h", "DB=MySQL S3_BUCKET=b"}

\* r with the content of each manifest that is not among its files reset: a file
\* that is not there has no content
Variants(file, files, docs, none) == IF file \in files THEN docs ELSE {none}

RootsOver(universe, n, composeDocs) ==
    UNION {
      {[kind |-> "dir", files |-> fs, dirs |-> {},
        procfile |-> pf, compose |-> co, render |-> re, fly |-> fl,
        dockerfile |-> df, appjson |-> aj,
        envText |-> [p \in EnvPaths |-> IF p = ".env.example" THEN e1 ELSE e2]] :
          pf \in Variants("Procfile", fs, Procfiles, NoProcfile),
          co \in IF AnyIn(ComposeNamesAll, fs) THEN composeDocs ELSE {NoCompose},
          re \in Variants("render.yaml", fs, RenderDocs, NoRender),
          fl \in Variants("fly.toml", fs, FlyDocs, NoFly),
          df \in Variants("Dockerfile", fs, Dockerfiles, NoDockerfile),
          aj \in Variants("app.json", fs, AppJsons, NoAppJson),
          e1 \in Variants(".env.example", fs, EnvTexts, ""),
          e2 \in Variants(".env.sample", fs, EnvTexts, "")} :
      fs \in BoundedSubsets(universe, n)}

AnalyzeFiles ==
    {"Procfile", "app.json", "render.yaml", "fly.toml", "docker-compose.yml",
     "compose.yml", "Dockerfile", "requirements.txt", "package.json",
     ".env.example", ".env.sample", "frontend/index.js", "backend/main.py",
     "next.config.mjs", "gatsby-config.js",
     "node_modules/pkg/package.json", ".cache/Procfile"}

AnalyzeRoots == RootsOver(AnalyzeFiles, MaxFiles, ComposeDocs)

\* roots and constructor arguments of the generation runs
GenerateFiles ==
    {"Procfile", "docker-compose.yml", "render.yaml", "Dockerfile", "package.json",
     ".env.example"}

GenerateComposeDocs ==
    { [NoCompose EXCEPT !.services = "null"],
      Compose(<<Published("web", <<"8080:8080">>), Image("postgres", "postgres:15")>>),
      Compose(<<Published("api", <<"127.0.0.1:8080:80">>), Published("jobs", <<>>),
                Image("proxy", "nginx:1.25"), Image("store", "Redis:7.2-alpine")>>),
      Compose(<<Image("pg", "postgres:14.2"), Image("mq", "rabbitmq:3"),
                Image("mysql", "mariadb:latest"), Image("mongo", "mongo:6"),
                Image("memcached", "memcached:1.6"), Image("kafka", "bitnami/kafka:3.6"),
                Image("replica", "postgres:14.2")>>) }

GenerateRoots ==
    {[EmptyRoot EXCEPT !.kind = "missing"], [EmptyRoot EXCEPT !.kind = "file"]}
    \cup RootsOver(GenerateFiles, MaxFiles, GenerateComposeDocs)

AppNames == {"my shop"}
Environments == {"test", "production", "staging", ""}

(***************************************************************************)
(* Operations.                                                             *)
(***************************************************************************)
\* d = PlatformDetector(repo_path)
NewDetector(d) ==
    /\ detectors[d].state = "none"
    /\ detectors' = [detectors EXCEPT ![d] = PlatformDetector_init(root)]
    /\ UNCHANGED <<root, hashSeed, analyzers, generators, checklist>>

\* d.detect()
Detect(d) ==
    /\ detectors[d].state = "ready"
    /\ detectors[d].calls < MaxCalls
    /\ detectors' = [detectors EXCEPT
            ![d].result = PlatformDetector_detect(detectors[d].files, detectors[d].dirs, hashSeed),
            ![d].calls = @ + 1]
    /\ UNCHANGED <<root, hashSeed, analyzers, generators, checklist>>

\* a = ArchitectureAnalyzer(repo_path)
NewAnalyzer(a) ==
    /\ analyzers[a].state = "none"
    /\ analyzers' = [analyzers EXCEPT ![a] = ArchitectureAnalyzer_init(root)]
    /\ UNCHANGED <<root, hashSeed, detectors, generators, checklist>>

\* a.analyze(): the manifests are read from the root at the time of the call
Analyze(a) ==
    /\ analyzers[a].state = "ready"
    /\ Len(analyzers[a].outcomes) < MaxCalls
    /\ analyzers' = [analyzers EXCEPT
            ![a].outcomes = Append(@, AnalyzeOutcome(analyzers[a].files, root, hashSeed)),
            ![a].files = SnapshotAfterAnalyze(@)]
    /\ UNCHANGED <<root, hashSeed, detectors, generators, checklist>>

\* g = AppSpecGenerator(repo_path, app_name, environment)
NewGenerator(g, app_name, environment) ==
    /\ generators[g].state = "none"
    /\ generators' = [generators EXCEPT
            ![g] = AppSpecGenerator_init(root, hashSeed, app_name, environment)]
    /\ UNCHANGED <<root, hashSeed, detectors, analyzers, checklist>>

\* the calls made on a generator so far
CallCount(gen) == Len(gen.specs) + Len(gen.templates) + Len(gen.reports)

\* self.warnings.append and self.unmapped_items.append in _generate_database_specs:
\* the lists are the instance's own, created in __init__
\* accumulators held once for the class: every constructed generator sees the appends
Accumulate_shared(gens, g, dbs) ==
    [h \in DOMAIN gens |->
        IF gens[h].state = "ready"
        THEN [gens[h] EXCEPT !.warnings = @ \o dbs.warnings,
                             !.unmapped_items = @ \o dbs.unmapped_items]
        ELSE gens[h]]

\* accumulators that each call starts afresh
Accumulate_fresh(gens, g, dbs) ==
    [gens EXCEPT ![g].warnings = dbs.warnings,
                 ![g].unmapped_items = dbs.unmapped_items]

Accumulate(gens, g, dbs) ==
    [gens EXCEPT ![g].warnings = @ \o dbs.warnings,
                 ![g].unmapped_items = @ \o dbs.unmapped_items]

\* g.generate()
Generate(g) ==
    LET gen == generators[g]
        dbs == generate_database_specs(gen.architecture, gen.app_name, gen.environment)
    IN  /\ gen.state = "ready"
        /\ CallCount(gen) < MaxCalls
        /\ generators' = [Accumulate(generators, g, dbs) EXCEPT
                ![g].specs = Append(@, AppSpecGenerator_generate(
                                 gen.architecture, gen.app_name, gen.environment,
                                 Null, "main"))]
        /\ UNCHANGED <<root, hashSeed, detectors, analyzers, checklist>>

RepoUrls == {"https://github.com/acme/shop"}

\* g.generate_deploy_template(repo_url): generate() runs inside it
GenerateDeployTemplate(g, repo_url) ==
    LET gen == generators[g]
        dbs == generate_database_specs(gen.architecture, gen.app_name, gen.environment)
    IN  /\ gen.state = "ready"
        /\ CallCount(gen) < MaxCalls
        /\ generators' = [Accumulate(generators, g, dbs) EXCEPT
                ![g].templates = Append(@, AppSpecGenerator_generate_deploy_template(
                                     gen.architecture, gen.app_name, gen.environment,
                                     repo_url))]
        /\ UNCHANGED <<root, hashSeed, detectors, analyzers, checklist>>

\* g.get_migration_report()
GetMigrationReport(g) ==
    LET gen == generators[g]
    IN  /\ gen.state = "ready"
        /\ CallCount(gen) < MaxCalls
        /\ generators' = [generators EXCEPT
                ![g] = [GeneratorAfterReport(gen) EXCEPT
                           !.reports = Append(@, AppSpecGenerator_get_migration_report(gen))]]
        /\ UNCHANGED <<root, hashSeed, detectors, analyzers, checklist>>

NoInstances ==
    /\ detectors = [d \in DetIds |-> NoDetector]
    /\ analyzers = [a \in AnIds |-> NoAnalyzer]
    /\ generators = [g \in GenIds |-> NoGenerator]
    /\ checklist = NoChecklist

\* generate_checklist(repo_path, app_name)
GenerateChecklist(app_name) ==
    /\ checklist.state = "none"
    /\ checklist' = generate_checklist(root, hashSeed, app_name)
    /\ UNCHANGED <<root, hashSeed, detectors, analyzers, generators>>

\* the iteration order shows only where a set of two environment files is iterated
InitAnalyze ==
    /\ root \in AnalyzeRoots
    /\ hashSeed \in (IF EnvPaths \subseteq root.files THEN {0, 1} ELSE {0})
    /\ NoInstances

NextAnalyze == \E a \in AnIds : NewAnalyzer(a) \/ Analyze(a)

SpecAnalyze == InitAnalyze /\ [][NextAnalyze]_vars

InitDetect ==
    /\ root \in DetectRoots
    /\ hashSeed \in {0, 1}
    /\ NoInstances

NextDetect == \E d \in DetIds : NewDetector(d) \/ Detect(d)

SpecDetect == InitDetect /\ [][NextDetect]_vars

InitGenerate ==
    /\ root \in GenerateRoots
    /\ hashSeed = 0
    /\ NoInstances

NextGenerate ==
    \E g \in GenIds :
        \/ \E app_name \in AppNames, environment \in Environments :
              NewGenerator(g, app_name, environment)
        \/ Generate(g)

SpecGenerate == InitGenerate /\ [][NextGenerate]_vars

\* one generator, constructed for either environment, and every call on it
InitTemplate ==
    /\ root \in GenerateRoots
    /\ hashSeed = 0
    /\ NoInstances

NextTemplate ==
    \/ \E app_name \in AppNames, environment \in {"test", "production"} :
          NewGenerator("g1", app_name, environment)
    \/ Generate("g1")
    \/ \E repo_url \in RepoUrls : GenerateDeployTemplate("g1", repo_url)
    \/ GetMigrationReport("g1")

SpecTemplate == InitTemplate /\ [][NextTemplate]_vars

\* the checklist of a root beside one generator on which generate() is called
InitChecklist ==
    /\ root \in GenerateRoots
    /\ hashSeed \in {0, 1}
    /\ NoInstances

NextChecklist ==
    \/ \E app_name \in AppNames : GenerateChecklist(app_name)
    \/ \E app_name \in AppNames, environment \in {"test", "production"} :
          NewGenerator("g1", app_name, environment)
    \/ Generate("g1")

SpecChecklist == InitChecklist /\ [][NextChecklist]_vars

\* one detector, one analyzer, a test and a production generator over one root,
\* their calls in any order
PipelineComposeDocs ==
    { Compose(<<Published("web", <<"8080:8080">>), Image("pg", "postgres:14.2"),
                Image("mq", "rabbitmq:3")>>) }

PipelineRoots ==
    RootsOver({"docker-compose.yml"}, MaxFiles, PipelineComposeDocs)
        \cup RootsOver({"compose.yml"}, MaxFiles, PipelineComposeDocs)

InitPipeline ==
    /\ root \in PipelineRoots
    /\ hashSeed = 0
    /\ NoInstances

NextPipeline ==
    \/ NewDetector("d1")
    \/ Detect("d1")
    \/ NewAnalyzer("a1")
    \/ Analyze("a1")
    \/ \E app_name \in AppNames : NewGenerator("g1", app_name, "test")
    \/ \E app_name \in AppNames : NewGenerator("g2", app_name, "production")
    \/ \E g \in GenIds :
          \/ Generate(g)
          \/ \E repo_url \in RepoUrls : GenerateDeployTemplate(g, repo_url)
          \/ GetMigrationReport(g)

SpecPipeline == InitPipeline /\ [][NextPipeline]_vars

\* the constructors alone
InitConstruct ==
    /\ root \in GenerateRoots
    /\ hashSeed = 0
    /\ NoInstances

NextConstruct ==
    \/ \E d \in DetIds : NewDetector(d)
    \/ \E a \in AnIds : NewAnalyzer(a)
    \/ \E g \in GenIds : \E app_name \in AppNames, environment \in Environments :
          NewGenerator(g, app_name, environment)

SpecConstruct == InitConstruct /\ [][NextConstruct]_vars

(***************************************************************************)
(* Properties.                                                             *)
(***************************************************************************)
IndicatorCount == Len(PLATFORM_INDICATORS)

\* a path below a directory named as noise
UnderNoiseDir(path) == \E dir \in AncestorDirs(path) : BaseName(dir) \in DetectorSkip

\* the root holds a file or directory that rule ind names, outside the noise directories
RootHasIndicator(r, ind) ==
    /\ r.kind = "dir"
    /\ \/ \E f \in r.files :
            /\ ~UnderNoiseDir(f)
            /\ \/ f \in Range(ind.files)
               \/ \E i \in 1..Len(ind.patterns) : FnMatch(f, ind.patterns[i])
       \/ \E d \in AllDirs(r) : d \in Range(ind.dirs)

SpecificRules == {i \in 1..IndicatorCount : PLATFORM_INDICATORS[i].platform # "generic_docker"}

\* C1: a root with a root-level Dockerfile and an indicator of another rule is
\* detected as one of the rules whose indicator it holds, never as generic_docker.
C1_SpecificPlatformWins ==
    \A d \in DetIds :
        (/\ detectors[d].calls > 0
         /\ "Dockerfile" \in root.files
         /\ \E i \in SpecificRules : RootHasIndicator(root, PLATFORM_INDICATORS[i]))
        => /\ detectors[d].result.primary_platform # "generic_docker"
           /\ \E i \in SpecificRules :
                 /\ PLATFORM_INDICATORS[i].platform = detectors[d].result.primary_platform
                 /\ RootHasIndicator(root, PLATFORM_INDICATORS[i])

DeclIndex(platform) ==
    CHOOSE i \in 1..IndicatorCount : PLATFORM_INDICATORS[i].platform = platform

\* rule ind hits on a snapshot
RuleHits(ind, files, dirs) ==
    \/ Range(ind.files) \cap files # {}
    \/ \E i \in 1..Len(ind.patterns) : \E f \in files : FnMatch(f, ind.patterns[i])
    \/ Range(ind.dirs) \cap dirs # {}

KeyLess(a, b) ==
    \/ a.priority < b.priority
    \/ a.priority = b.priority /\ DeclIndex(a.platform) < DeclIndex(b.platform)

\* C2: all_detected holds exactly the rules that hit, in increasing order of
\* (priority, declaration index); the primary is its first element, and it is
\* 'unknown' exactly when no rule hits.
C2_PrimaryFirstByPriorityThenDeclaration ==
    \A d \in DetIds :
        detectors[d].calls > 0 =>
            LET res == detectors[d].result
                all == res.all_detected
                hitting == {i \in 1..IndicatorCount :
                               RuleHits(PLATFORM_INDICATORS[i], detectors[d].files,
                                        detectors[d].dirs)}
            IN  /\ \A i, j \in 1..Len(all) : i < j => KeyLess(all[i], all[j])
                /\ {all[i].platform : i \in 1..Len(all)}
                       = {PLATFORM_INDICATORS[i].platform : i \in hitting}
                /\ all # <<>> => res.primary_platform = all[1].platform
                /\ res.primary_platform = "unknown" <=> hitting = {}

\* two rules of priority 2 hit and the one declared first is primary
C2_TieWitness ==
    \E d \in DetIds :
        /\ detectors[d].calls > 0
        /\ detectors[d].result.primary_platform = "render"
        /\ Len(detectors[d].result.all_detected) = 2
        /\ detectors[d].result.all_detected[2].platform = "fly"

\* C3: no detector, analyzer or generator is constructed on a root that is
\* missing or is not a directory: the constructor raises the invalid-root error.
C3_InvalidRootRejected ==
    root.kind # "dir" =>
        /\ \A d \in DetIds : detectors[d].state \in {"none", "ValueError"}
        /\ \A a \in AnIds : analyzers[a].state \in {"none", "ValueError"}
        /\ \A g \in GenIds : generators[g].state \in {"none", "ValueError"}

\* C4: every call of analyze() on a constructed analyzer returns a report.
C4_AnalyzeNeverRaises ==
    \A a \in AnIds :
        \A i \in 1..Len(analyzers[a].outcomes) : ~analyzers[a].outcomes[i].raised

\* C5 as stated: every spec returned by generate() is named
\* '<app name>-<environment>' and has a region.
C5_NameIsAppDashEnvironment ==
    \A g \in GenIds :
        \A i \in 1..Len(generators[g].specs) :
            /\ generators[g].specs[i].name
                   = generators[g].app_name \o "-" \o generators[g].environment
            /\ generators[g].specs[i].region # ""

ComponentSpecsOf(spec) == spec.services \o spec.workers \o spec.jobs \o spec.static_sites

\* sized and replicated as the test environment
SizedAsTest(spec) ==
    /\ \A i \in 1..Len(spec.services) :
          /\ spec.services[i].instance_size_slug = "apps-s-1vcpu-1gb"
          /\ spec.services[i].instance_count = IntVal(1)
          /\ ~spec.services[i].autoscaling.present
    /\ \A i \in 1..Len(spec.workers) :
          /\ spec.workers[i].instance_size_slug = "apps-s-1vcpu-0.5gb"
          /\ spec.workers[i].instance_count = IntVal(1)
    /\ \A i \in 1..Len(spec.jobs) : spec.jobs[i].instance_size_slug = "apps-s-1vcpu-0.5gb"

\* C5, amended: every call of generate() on a constructed generator returns a
\* spec with a region whose name is '<app name>-<environment>' for a non-empty
\* environment string and '<app name>' for the empty one; an environment other
\* than 'test' and 'production' is sized and replicated as 'test'.
C5_GenerateReturnsNamedSpec ==
    \A g \in GenIds :
        \A i \in 1..Len(generators[g].specs) :
            LET gen == generators[g]
                spec == gen.specs[i]
            IN  /\ gen.environment # ""
                      => spec.name = gen.app_name \o "-" \o gen.environment
                /\ gen.environment = "" => spec.name = gen.app_name
                /\ spec.region = "nyc"
                /\ gen.environment \notin {"test", "production"} => SizedAsTest(spec)

\* generate() has returned on an empty directory, for an environment that is
\* neither 'test' nor 'production', and on the empty environment string
C5_EmptyDirectoryWitness ==
    /\ root.kind = "dir" /\ root.files = {}
    /\ \E g \in GenIds :
          /\ generators[g].environment = "staging"
          /\ generators[g].specs # <<>>
          /\ generators[g].specs[1].name = "my shop-staging"
          /\ Len(generators[g].specs[1].services) = 1
    /\ \E g \in GenIds :
          /\ generators[g].state = "ready" /\ generators[g].environment = ""
          /\ generators[g].specs # <<>>

RuntimeManifests == UNION {runtime_indicators[i].names : i \in 1..Len(runtime_indicators)}

\* the root holds none of the manifests the analysis recognizes
NoRecognizedManifest(r) ==
    /\ r.kind = "dir"
    /\ r.files \cap RuntimeManifests = {}
    /\ ~\E f \in r.files : EndsWith(f, ".csproj") \/ EndsWith(f, ".fsproj")
    /\ r.files \cap ({"Procfile", "fly.toml", "Dockerfile"} \cup Range(ComposeNamesAll)
                        \cup Range(RenderNames) \cup static_indicators) = {}
    /\ ~HasDir(frontend_dirs \cup backend_dirs, r.files)

\* C6: on a root with no recognized manifest analyze() reports runtime 'unknown',
\* architecture 'monolith' and the single component 'web', a service on the
\* default port.
C6_NoManifestDefaults ==
    \A a \in AnIds :
        \A i \in 1..Len(analyzers[a].outcomes) :
            NoRecognizedManifest(root) =>
                LET out == analyzers[a].outcomes[i]
                IN  /\ ~out.raised
                    /\ out.report.runtime = "unknown"
                    /\ out.report.architecture_type = "monolith"
                    /\ Len(out.report.components) = 1
                    /\ out.report.components[1].name = "web"
                    /\ out.report.components[1].type = "service"
                    /\ out.report.components[1].port = IntVal(out.report.default_port)
                    /\ out.report.default_port = 8080

\* analyze() has returned on a root that holds files, none of them a recognized
\* manifest at the top level
C6_NoManifestWitness ==
    /\ NoRecognizedManifest(root)
    /\ Cardinality(root.files) = 2
    /\ "node_modules/pkg/package.json" \in root.files
    /\ \E a \in AnIds : analyzers[a].outcomes # <<>>

DedupTypes == {"postgres", "mysql", "redis"}

EntriesOfType(deps, type) ==
    SelectSeq(deps.databases \o deps.caches, LAMBDA d : d.type = type)

\* an environment file of the snapshot mentions the type
EnvMentions(files, r, type) ==
    \E p \in files \cap EnvPaths : Contains(Lower(r.envText[p]), type)

\* the compose images and add-ons of the root that declare the type
Declared(files, r, type) ==
    LET services == parse_docker_compose_services(files, r)
    IN  Cardinality({i \in 1..Len(services.entries) :
                        ImageFamily(Lower(ImageText(services.entries[i])))[2] = type})
        + Cardinality({i \in 1..Len(Addons(files, r)) :
                          AddonFamily(Addons(files, r)[i])[2] = type})

\* C8: for postgres, mysql and redis, a report holds the entries the manifests
\* declare and, only when they declare none and an environment file mentions the
\* type, one inferred entry: never an inferred entry beside another entry of
\* its type, never two inferred entries of a type.
C8_EnvPassAddsOnlyMissingTypes ==
    \A a \in AnIds :
        \A i \in 1..Len(analyzers[a].outcomes) :
            ~analyzers[a].outcomes[i].raised =>
                \A type \in DedupTypes :
                    LET entries == EntriesOfType(
                                       analyzers[a].outcomes[i].report.dependencies, type)
                        inferred == SelectSeq(entries, LAMBDA d : d.inferred)
                        declared == Declared(analyzers[a].files, root, type)
                    IN  /\ Len(inferred) <= 1
                        /\ inferred # <<>> => Len(entries) = 1
                        /\ Len(entries) =
                               IF declared > 0 THEN declared
                               ELSE IF EnvMentions(analyzers[a].files, root, type) THEN 1
                               ELSE 0

\* a compose image declares postgres, an environment file mentions it, and the
\* report holds the one declared entry
C8_DeclaredAndMentionedWitness ==
    \E a \in AnIds :
        /\ analyzers[a].outcomes # <<>>
        /\ ~analyzers[a].outcomes[1].raised
        /\ Declared(analyzers[a].files, root, "postgres") = 1
        /\ EnvMentions(analyzers[a].files, root, "postgres")
        /\ Len(analyzers[a].outcomes[1].report.dependencies.databases) = 1
        /\ ~analyzers[a].outcomes[1].report.dependencies.databases[1].inferred

Bindings(comp, key) == SelectSeq(comp.envs, LAMBDA e : e.key = key)

\* C9: when the architecture report holds a redis cache, every component of
\* every generated spec has a VALKEY_URL and a REDIS_URL binding, all of one value.
C9_RedisAliasesValkey ==
    \A g \in GenIds :
        \A i \in 1..Len(generators[g].specs) :
            HasType(generators[g].architecture.dependencies.caches, "redis") =>
                \A c \in Range(ComponentSpecsOf(generators[g].specs[i])) :
                    /\ Bindings(c, "VALKEY_URL") # <<>>
                    /\ Bindings(c, "REDIS_URL") # <<>>
                    /\ \A v \in Range(Bindings(c, "VALKEY_URL")) :
                          \A r \in Range(Bindings(c, "REDIS_URL")) :
                              v.value = r.value /\ v.value.k = "str"

\* a spec with a service and workers was generated from a report with a redis cache
C9_RedisWitness ==
    \E g \in GenIds :
        /\ generators[g].specs # <<>>
        /\ HasType(generators[g].architecture.dependencies.caches, "redis")
        /\ generators[g].specs[1].services # <<>>
        /\ generators[g].specs[1].workers # <<>>

\* C10: between a production and a test generator of one application name over
\* the root, each production service has at least the instance_count of the
\* same-named test service; production services all have an autoscaling block,
\* test services none.
C10_ProductionAtLeastTest ==
    \A gp, gt \in GenIds :
        (/\ generators[gp].environment = "production"
         /\ generators[gt].environment = "test"
         /\ generators[gp].app_name = generators[gt].app_name)
        => /\ \A sp \in Range(generators[gp].specs) :
                 \A p \in Range(sp.services) :
                     /\ p.autoscaling.present
                     /\ p.instance_count.k = "int"
                     /\ \A st \in Range(generators[gt].specs) :
                           \A t \in Range(st.services) :
                               t.name = p.name =>
                                   /\ t.instance_count.k = "int"
                                   /\ p.instance_count.v >= t.instance_count.v
           /\ \A st \in Range(generators[gt].specs) :
                 \A t \in Range(st.services) : ~t.autoscaling.present

\* a production and a test generator have both generated a spec with services
C10_BothEnvironmentsWitness ==
    \E gp, gt \in GenIds :
        /\ generators[gp].environment = "production"
        /\ generators[gt].environment = "test"
        /\ generators[gp].specs # <<>> /\ generators[gt].specs # <<>>
        /\ generators[gp].specs[1].services # <<>>
        /\ generators[gt].specs[1].services # <<>>
        /\ generators[gp].specs[1].workers # <<>>

\* a warning that tells the operator to create a cluster out of band
ProvisioningWarning(w) == Contains(w, "doctl databases create")

\* C11 as stated: in a test generator no database or cache entry is a production
\* entry or names a cluster and no provisioning warning is appended; in a
\* production generator every entry is a production entry with a cluster name,
\* and a provisioning warning is appended.
C11_ProductionMirrorsEnvironment ==
    \A g \in GenIds :
        \A spec \in Range(generators[g].specs) :
            \A db \in Range(spec.databases) :
                /\ generators[g].environment = "test" =>
                      /\ ~db.production
                      /\ db.cluster_name = Absent
                      /\ ~\E w \in Range(generators[g].warnings) : ProvisioningWarning(w)
                /\ generators[g].environment = "production" =>
                      /\ db.production
                      /\ db.cluster_name.k = "str"
                      /\ \E w \in Range(generators[g].warnings) : ProvisioningWarning(w)

ClusterSuffix == [PG |-> "-db", VALKEY |-> "-cache", MYSQL |-> "-mysql", MONGODB |-> "-mongo"]

\* C11, amended: a PG or VALKEY entry is a production entry with a cluster name
\* exactly in a production generator; a MYSQL or MONGODB entry is a production
\* entry with a cluster name in every environment; the cluster name is derived
\* from the application name, and each call appends one provisioning warning
\* for each entry that names a cluster and none for the others.
C11_ProductionMirrorsEnvironmentForDevTierEngines ==
    \A g \in GenIds :
        \A spec \in Range(generators[g].specs) :
            LET gen == generators[g]
                clustered == SelectSeq(spec.databases, LAMBDA db : db.cluster_name.k = "str")
            IN  /\ \A db \in Range(spec.databases) :
                      /\ db.engine \in DOMAIN ClusterSuffix
                      /\ db.production =
                             (gen.environment = "production" \/ db.engine \in {"MYSQL", "MONGODB"})
                      /\ db.cluster_name =
                             IF db.production
                             THEN Str(gen.app_name \o ClusterSuffix[db.engine]) ELSE Absent
                /\ Len(SelectSeq(gen.warnings, ProvisioningWarning))
                       = Len(clustered) * (Len(gen.specs) + Len(gen.templates))
                /\ \A db \in Range(clustered) :
                      \E w \in Range(gen.warnings) :
                          Contains(w, "doctl databases create " \o db.cluster_name.v \o " ")

\* a test generator has returned a spec with a dev PG entry beside MYSQL and
\* MONGODB entries, and a production generator one with a PG cluster
C11_BothTiersWitness ==
    /\ \E g \in GenIds :
          /\ generators[g].environment = "test"
          /\ generators[g].specs # <<>>
          /\ {db.engine : db \in Range(generators[g].specs[1].databases)}
                 = {"PG", "MYSQL", "MONGODB"}
    /\ \E g \in GenIds :
          /\ generators[g].environment = "production"
          /\ generators[g].specs # <<>>
          /\ \E db \in Range(generators[g].specs[1].databases) :
                db.engine = "PG" /\ db.production

AllDependencies(deps) == deps.databases \o deps.caches \o deps.queues \o deps.storage

\* the engine that stands for a dependency type in the databases list
EngineOf == [postgres |-> "PG", mysql |-> "MYSQL", mongodb |-> "MONGODB",
             redis |-> "VALKEY", valkey |-> "VALKEY"]

\* C12: after generate() every dependency entry of the architecture report is
\* represented by an entry of the spec's databases list or recorded in
\* unmapped_items with a reason and options.
C12_EveryDependencyAccounted ==
    \A g \in GenIds :
        \A spec \in Range(generators[g].specs) :
            \A dep \in Range(AllDependencies(generators[g].architecture.dependencies)) :
                \/ /\ dep.type \in DOMAIN EngineOf
                   /\ \E db \in Range(spec.databases) : db.engine = EngineOf[dep.type]
                \/ \E item \in Range(generators[g].unmapped_items) :
                      /\ item.source = dep.source
                      /\ item.reason # ""
                      /\ item.options # <<>>

\* C13 as stated: in every spec returned by generate_deploy_template() no service
\* has an instance_count or an autoscaling block, and every entry of the
\* databases list has production false and no cluster_name.
C13_TemplateIsNonProduction ==
    \A g \in GenIds :
        \A template \in Range(generators[g].templates) :
            /\ \A service \in Range(template.services) :
                  service.instance_count = None /\ ~service.autoscaling.present
            /\ \A db \in Range(template.databases) :
                  ~db.production /\ db.cluster_name = Absent

\* C13, amended: in every spec returned by generate_deploy_template() no service
\* has an instance_count or an autoscaling block, every PG and VALKEY entry has
\* production false and no cluster_name, and every MYSQL and MONGODB entry keeps
\* production true and its cluster_name.
C13_TemplateUsesDevTierWhereItExists ==
    \A g \in GenIds :
        \A template \in Range(generators[g].templates) :
            /\ \A service \in Range(template.services) :
                  service.instance_count = None /\ ~service.autoscaling.present
            /\ \A db \in Range(template.databases) :
                  IF db.engine \in {"PG", "VALKEY"}
                  THEN ~db.production /\ db.cluster_name = Absent
                  ELSE /\ db.engine \in {"MYSQL", "MONGODB"}
                       /\ db.production
                       /\ db.cluster_name
                              = Str(generators[g].app_name \o ClusterSuffix[db.engine])

\* a production generator has returned a template with a service, a PG entry
\* and a MYSQL entry
C13_ProductionTemplateWitness ==
    \E g \in GenIds :
        /\ generators[g].environment = "production"
        /\ generators[g].templates # <<>>
        /\ generators[g].templates[1].services # <<>>
        /\ {"PG", "MYSQL"} \subseteq
               {db.engine : db \in Range(generators[g].templates[1].databases)}

\* C14: a get_migration_report() call returns requires_user_decision true exactly
\* when unmapped_items is non-empty at the call, and leaves unmapped_items,
\* warnings and the stored architecture and platform reports as they were.
C14_ReportIsReadOnlyProjection ==
    [][\A g \in GenIds :
          Len(generators'[g].reports) > Len(generators[g].reports) =>
              LET report == generators'[g].reports[Len(generators'[g].reports)]
              IN  /\ report.requires_user_decision = (generators[g].unmapped_items # <<>>)
                  /\ report.unmapped_items = generators[g].unmapped_items
                  /\ generators'[g].unmapped_items = generators[g].unmapped_items
                  /\ generators'[g].warnings = generators[g].warnings
                  /\ generators'[g].architecture = generators[g].architecture
                  /\ generators'[g].platform_info = generators[g].platform_info]_vars

\* a report taken after a generate() call that recorded an unmapped item
C14_ReportAfterGenerateWitness ==
    \E g \in GenIds :
        /\ generators[g].specs # <<>>
        /\ generators[g].reports # <<>>
        /\ generators[g].reports[1].requires_user_decision
        /\ generators[g].unmapped_items # <<>>
        /\ generators[g].warnings # <<>>

\* the generator has run generate() exactly once, for the application the
\* checklist was written for
RanGenerateOnceFor(g, environment) ==
    /\ checklist.state = "returned"
    /\ generators[g].state = "ready"
    /\ generators[g].environment = environment
    /\ generators[g].app_name = checklist.app_name
    /\ Len(generators[g].specs) = 1

CountOf(line, lines) == Cardinality({i \in 1..Len(lines) : lines[i] = line})

\* C15: the checklist holds the unmapped-decision section exactly when generate()
\* on a test generator over the same root yields a non-empty unmapped_items; the
\* section lists each item, and the 'Requires Decision' row of the summary shows
\* the number of items.
C15_ChecklistListsUnmappedItems ==
    \A g \in GenIds :
        RanGenerateOnceFor(g, "test") =>
            LET items == generators[g].unmapped_items
            IN  /\ (CountOf(UnmappedHeader, checklist.lines) > 0) <=> (items # <<>>)
                /\ \A item \in Range(items) :
                      CountOf("\n**" \o item.name \o "**", checklist.lines) > 0
                /\ CountOf("| Requires Decision | " \o ToStr(Len(items)) \o " |",
                           checklist.lines) = 1

\* C16: the checklist holds the deduplicated union of the warnings that generate()
\* appends on the test and on the production generator: each such warning is
\* listed exactly once under the warnings header.
C16_ChecklistListsWarningsOnce ==
    \A g \in GenIds :
        \A environment \in {"test", "production"} :
            (RanGenerateOnceFor(g, environment) /\ generators[g].warnings # <<>>) =>
                /\ CountOf(WarningsHeader, checklist.lines) = 1
                /\ \A warning \in Range(generators[g].warnings) :
                      CountOf("- " \o warning, checklist.lines) = 1

RECURSIVE Copies(_, _)
Copies(seq, k) == IF k = 0 THEN <<>> ELSE Copies(seq, k - 1) \o seq

\* the generator is in a state that its own calls, run on a fresh instance over
\* the root with no other instance present, lead to
GeneratorAsIfAlone(gen) ==
    LET solo == AppSpecGenerator_init(root, hashSeed, gen.app_name, gen.environment)
        dbs == generate_database_specs(solo.architecture, gen.app_name, gen.environment)
        k == Len(gen.specs) + Len(gen.templates)
    IN  /\ gen.platform_info = solo.platform_info
        /\ gen.architecture = solo.architecture
        /\ gen.warnings = Copies(dbs.warnings, k)
        /\ gen.unmapped_items = Copies(dbs.unmapped_items, k)
        /\ \A spec \in Range(gen.specs) :
              spec = AppSpecGenerator_generate(solo.architecture, gen.app_name,
                                               gen.environment, Null, "main")
        /\ \A template \in Range(gen.templates) :
              \E repo_url \in RepoUrls :
                  template = AppSpecGenerator_generate_deploy_template(
                                 solo.architecture, gen.app_name, gen.environment, repo_url)
        /\ \A report \in Range(gen.reports) :
              \E j \in 0..k :
                  report = AppSpecGenerator_get_migration_report(
                               [solo EXCEPT !.warnings = Copies(dbs.warnings, j),
                                            !.unmapped_items = Copies(dbs.unmapped_items, j)])

\* C17: under any interleaving of detect(), analyze(), generate(),
\* generate_deploy_template() and get_migration_report() calls on distinct instances
\* over one root, each instance's results, warnings and unmapped_items are those of
\* the same calls made on that instance alone.
C17_InstancesIndependent ==
    /\ \A d \in DetIds :
          detectors[d].state = "ready" =>
              detectors[d].result =
                  IF detectors[d].calls = 0 THEN NoDetection
                  ELSE PlatformDetector_detect(PlatformDetector_scan_files(root),
                                               PlatformDetector_scan_dirs(root), hashSeed)
    /\ \A a \in AnIds :
          \A outcome \in Range(analyzers[a].outcomes) :
              outcome = AnalyzeOutcome(ArchitectureAnalyzer_scan_files(root), root, hashSeed)
    /\ \A g \in GenIds :
          generators[g].state = "ready" => GeneratorAsIfAlone(generators[g])

\* calls on the detector, the analyzer and both generators have been interleaved:
\* one generator has accumulated warnings and an unmapped item while the other,
\* constructed before, has made no accumulating call yet
C17_InterleavedWitness ==
    /\ detectors["d1"].calls > 0
    /\ analyzers["a1"].outcomes # <<>>
    /\ generators["g1"].specs # <<>>
    /\ generators["g1"].unmapped_items # <<>>
    /\ generators["g1"].reports # <<>>
    /\ generators["g2"].state = "ready"
    /\ generators["g2"].reports # <<>>
    /\ generators["g2"].specs = <<>>
    /\ generators["g2"].templates = <<>>

\* the reports that analyze() calls have returned
ReturnedReports ==
    {outcome.report : outcome \in
        {o \in UNION {Range(analyzers[a].outcomes) : a \in AnIds} : ~o.raised}}

\* C18: the names of the components of a report are pairwise distinct.
C18_ComponentNamesDistinct ==
    \A report \in ReturnedReports :
        \A i, j \in 1..Len(report.components) :
            report.components[i].name = report.components[j].name => i = j

\* C19: every component of kind 'service' carries a port.
C19_ServicesCarryPort ==
    \A report \in ReturnedReports :
        \A component \in Range(report.components) :
            component.type = "service" => component.port # None

\* the kind the rule gives a process or compose service
KindByRule(name, publishes) ==
    IF name = "release" THEN "job"
    ELSE IF publishes \/ name = "web" THEN "service"
    ELSE "worker"

\* C20: a component read from a Procfile or a compose file has kind 'job' when it
\* is named 'release', otherwise 'service' when it publishes a port or is named
\* 'web', otherwise 'worker'; a Procfile with web and worker lines beside a Python
\* manifest yields [web: service on 8000, worker: worker].
C20_KindByNameAndPort ==
    \A a \in AnIds :
        \A outcome \in Range(analyzers[a].outcomes) :
            ~outcome.raised =>
                LET files == analyzers[a].files
                    components == outcome.report.components
                IN  /\ ("Procfile" \in files /\ parse_procfile(files, root) # <<>>) =>
                          \A c \in Range(components) : c.type = KindByRule(c.name, FALSE)
                    /\ ("Procfile" \notin files /\ AnyIn(ComposeNamesShort, files)
                          /\ parse_docker_compose_components(files, root) # <<>>) =>
                          \A c \in Range(components) :
                              \E sv \in Range(root.compose.entries) :
                                  /\ sv.name = c.name
                                  /\ c.type = KindByRule(sv.name, sv.ports # <<>>)
                    /\ (files = {"Procfile", "requirements.txt"}
                          /\ root.procfile = <<"web: python app.py", "worker: python worker.py">>) =>
                          /\ Len(components) = 2
                          /\ components[1].name = "web" /\ components[1].type = "service"
                          /\ components[1].port = IntVal(PortPython)
                          /\ components[2].name = "worker" /\ components[2].type = "worker"

\* the first manifest present in the order Procfile, compose manifest, render.yaml,
\* fly.toml, where a compose manifest is any of the four compose file names
FirstManifest(files) ==
    IF "Procfile" \in files THEN "procfile"
    ELSE IF AnyIn(ComposeNamesAll, files) THEN "compose"
    ELSE IF AnyIn(RenderNames, files) THEN "render"
    ELSE IF "fly.toml" \in files THEN "fly"
    ELSE "none"

\* the report's components are those of the first manifest present, or the implicit
\* web service on the default port when that manifest yields none
ComponentsOfFirstManifest(files, components) ==
    LET implicit == << Component("web", "service", "/",
                                 IntVal(detect_default_port(files, root)),
                                 Tri("Dockerfile" \in files), Absent, Absent) >>
        OrImplicit(derived) == IF derived # <<>> THEN derived ELSE implicit
    IN  CASE FirstManifest(files) = "procfile" ->
                 components = OrImplicit(parse_procfile(files, root))
          [] FirstManifest(files) = "compose" ->
                 /\ ~parse_docker_compose_components_raises(files, root)
                 /\ components = OrImplicit(parse_docker_compose_components(files, root))
          [] FirstManifest(files) = "render" ->
                 components = OrImplicit(parse_render_yaml(files, root))
          [] FirstManifest(files) = "fly" ->
                 components = OrImplicit(parse_fly_toml(files, root))
          [] OTHER -> components = implicit

\* C21: the components of a report come from exactly one manifest, the first
\* present in the order Procfile, compose manifest, render.yaml, fly.toml, and
\* never from a later one; the implicit web service stands in when that manifest
\* yields no component or no manifest is present, so the list is never empty.
C21_FirstPresentManifestOnly ==
    \A a \in AnIds :
        \A outcome \in Range(analyzers[a].outcomes) :
            ~outcome.raised =>
                /\ outcome.report.components # <<>>
                /\ ComponentsOfFirstManifest(analyzers[a].files, outcome.report.components)

ssr_markers == {"next.config.js", "next.config.mjs"}

\* the architecture type the ordered chain gives a snapshot
TypeByChain(files, composeNames) ==
    LET has_frontend == HasDir(frontend_dirs, files)
        has_backend == HasDir(backend_dirs, files)
    IN  IF /\ AnyIn(composeNames, files)
           /\ Len(AppServices(parse_docker_compose_services(files, root))) > MicroservicesThreshold
        THEN "microservices"
        ELSE IF has_frontend /\ has_backend THEN "full-stack"
        ELSE IF files \cap (static_indicators \cup ssr_markers) # {}
             THEN IF files \cap ssr_markers # {} THEN "full-stack" ELSE "static-site"
        ELSE IF has_frontend THEN "static-site"
        ELSE "monolith"

\* C22: architecture_type is 'microservices' if a compose manifest declares more
\* than two non-infrastructure services; else 'full-stack' if a frontend and a
\* backend directory are both present; else, with a static-site-generator marker,
\* 'static-site' unless next.config.js or next.config.mjs is present, which gives
\* 'full-stack' (also when next.config.mjs is the only marker); else 'static-site'
\* with a frontend directory alone; else 'monolith'.
C22_ArchitectureTypeChain ==
    \A a \in AnIds :
        \A outcome \in Range(analyzers[a].outcomes) :
            ~outcome.raised =>
                outcome.report.architecture_type
                    = TypeByChain(analyzers[a].files, ComposeNamesAll)

\* C23: a component whose own dockerfile flag is true, or whose architecture report
\* has has_dockerfile true, gets a component spec with dockerfile_path and without
\* environment_slug.
C23_DockerfileWinsOverBuildpack ==
    \A g \in GenIds :
        \A spec \in Range(generators[g].specs) :
            \A component \in Range(generators[g].architecture.components) :
                \A cs \in Range(ComponentSpecsOf(spec)) :
                    (/\ cs.name = component.name
                     /\ \/ component.has_dockerfile = "true"
                        \/ generators[g].architecture.has_dockerfile)
                    => cs.dockerfile_path = "Dockerfile" /\ cs.environment_slug = ""

\* the container side of a published mapping: the last ':' field, without '/proto'
ContainerPort(port_mapping) ==
    LET fields == Split(port_mapping, ":")
    IN  ToInt(Split(fields[Len(fields)], "/")[1])

\* the components of the generator's report were read from the compose manifest
ComponentsFromCompose(gen) ==
    /\ "Procfile" \notin root.files
    /\ AnyIn(ComposeNamesShort, root.files)
    /\ gen.architecture.components
           = parse_docker_compose_components(ArchitectureAnalyzer_scan_files(root), root)

\* C24: every service of a generated spec has an http_port, the component's own
\* port when the analyzer reported one and the architecture default port
\* otherwise; the own port of a compose service is the container side of its
\* first published mapping, also when the mapping carries a host address.
C24_HttpPortIsContainerPort ==
    \A g \in GenIds :
        \A spec \in Range(generators[g].specs) :
            LET served == SelectSeq(generators[g].architecture.components,
                                    LAMBDA c : c.type = "service")
            IN  /\ Len(spec.services) = Len(served)
                /\ \A i \in 1..Len(spec.services) :
                      /\ spec.services[i].http_port.k = "int"
                      /\ spec.services[i].http_port =
                             IF served[i].port # None THEN served[i].port
                             ELSE IntVal(generators[g].architecture.default_port)
                      /\ ComponentsFromCompose(generators[g]) =>
                            \A sv \in Range(root.compose.entries) :
                                (sv.name = served[i].name /\ sv.ports # <<>>) =>
                                    spec.services[i].http_port
                                        = IntVal(ContainerPort(sv.ports[1]))

BoundTypes == [postgres |-> "DATABASE_URL", mysql |-> "MYSQL_URL"]

\* C25: the env list of every component of a generated spec holds exactly one
\* binding for each detected database type that has one (DATABASE_URL for postgres,
\* MYSQL_URL for mysql) however many entries of the type were detected, holds no
\* key twice, and is the same list for every component of the spec.
C25_OneBindingPerDatabaseType ==
    \A g \in GenIds :
        \A spec \in Range(generators[g].specs) :
            \A c \in Range(ComponentSpecsOf(spec)) :
                /\ \A type \in DOMAIN BoundTypes :
                      Len(Bindings(c, BoundTypes[type])) =
                          IF HasType(generators[g].architecture.dependencies.databases, type)
                          THEN 1 ELSE 0
                /\ \A i, j \in 1..Len(c.envs) : c.envs[i].key = c.envs[j].key => i = j
                /\ \A other \in Range(ComponentSpecsOf(spec)) : other.envs = c.envs

\* the files of a root that have no ancestor directory named in the noise set
OutsideNoise(r, noise) ==
    {p \in r.files : \A dir \in AncestorDirs(p) : BaseName(dir) \notin noise}

\* C26: the file snapshot a PlatformDetector builds of a root is the snapshot an
\* ArchitectureAnalyzer builds of it, and leaves out exactly the files that have a
\* noise directory among their ancestors.
C26_SnapshotsAgree ==
    \A d \in DetIds :
        detectors[d].state = "ready" =>
            /\ detectors[d].files = ArchitectureAnalyzer_init(root).files
            /\ root.kind = "dir" => detectors[d].files = OutsideNoise(root, DetectorSkip)

\* C27: generate() never clears the accumulators.  Every spec a generator's
\* generate() calls returned equals the first one, and after k calls of
\* generate() and generate_deploy_template() together warnings and unmapped_items
\* each hold k copies of the entries a single call produces; both are empty
\* before the first call.
C27_AccumulatorsGrowByCopies ==
    \A g \in GenIds :
        generators[g].state = "ready" =>
            LET gen == generators[g]
                k == Len(gen.specs) + Len(gen.templates)
                once == generate_database_specs(gen.architecture, gen.app_name,
                                                gen.environment)
            IN  /\ \A i \in 1..Len(gen.specs) : gen.specs[i] = gen.specs[1]
                /\ gen.warnings = Copies(once.warnings, k)
                /\ gen.unmapped_items = Copies(once.unmapped_items, k)
                /\ k = 0 => gen.warnings = <<>> /\ gen.unmapped_items = <<>>

\* a generate() call and a generate_deploy_template() call on one generator have
\* left two copies of a warning and of an unmapped item
C27_TwoCallsWitness ==
    \E g \in GenIds :
        /\ Len(generators[g].specs) = 1
        /\ Len(generators[g].templates) = 1
        /\ Len(generators[g].unmapped_items) = 2
        /\ generators[g].unmapped_items[1] = generators[g].unmapped_items[2]
        /\ Len(generators[g].warnings) >= 2

SubstitutionSuffix == ".DATABASE_URL}"

\* the value is a substitution '${X.DATABASE_URL}'
IsSubstitution(value) ==
    /\ value.k = "str"
    /\ StartsWith(value.v, "${")
    /\ EndsWith(value.v, SubstitutionSuffix)

\* the X of '${X.DATABASE_URL}'
ResourceOf(value) == SubSeq(value.v, 3, Len(value.v) - Len(SubstitutionSuffix))

EngineOfKey ==
    [DATABASE_URL |-> "PG", MYSQL_URL |-> "MYSQL", VALKEY_URL |-> "VALKEY",
     REDIS_URL |-> "VALKEY"]

\* C28: in every generated spec each env binding with a value '${X.DATABASE_URL}'
\* names a resource X of the spec's databases list: the database entry of its own
\* engine for DATABASE_URL and MYSQL_URL, the cache entry for VALKEY_URL and
\* REDIS_URL.
C28_BindingsResolve ==
    \A g \in GenIds :
        \A spec \in Range(generators[g].specs) :
            \A c \in Range(ComponentSpecsOf(spec)) :
                \A e \in Range(c.envs) :
                    IsSubstitution(e.value) =>
                        \E db \in Range(spec.databases) :
                            /\ db.name = ResourceOf(e.value)
                            /\ e.key \in DOMAIN EngineOfKey => db.engine = EngineOfKey[e.key]

\* C29: a report of architecture_type 'microservices' holds more than two
\* components, all of them derived from the compose manifest.
C29_MicroservicesHaveComponents ==
    \A a \in AnIds :
        \A outcome \in Range(analyzers[a].outcomes) :
            (~outcome.raised /\ outcome.report.architecture_type = "microservices") =>
                /\ Len(outcome.report.components) > MicroservicesThreshold
                /\ ~parse_docker_compose_components_raises(analyzers[a].files, root)
                /\ outcome.report.components
                       = parse_docker_compose_components(analyzers[a].files, root)

\* C30: the detector and the analyzer agree on the compose manifest of a root:
\* both reports carry the same has_docker_compose, and when the detector's
\* primary platform is docker_compose and the root holds no Procfile the
\* analyzer's components are those of the compose manifest.
C30_DetectorAnalyzerAgreeOnCompose ==
    \A d \in DetIds, a \in AnIds :
        \A outcome \in Range(analyzers[a].outcomes) :
            (detectors[d].calls > 0 /\ ~outcome.raised) =>
                /\ detectors[d].result.has_docker_compose = outcome.report.has_docker_compose
                /\ (/\ detectors[d].result.primary_platform = "docker_compose"
                    /\ "Procfile" \notin root.files)
                   => /\ FirstManifest(analyzers[a].files) = "compose"
                      /\ ComponentsOfFirstManifest(analyzers[a].files,
                                                   outcome.report.components)

====
